---- MODULE Spec2Model ----
(***************************************************************************)
(* Model of the ship-bot repository: the Shiprocket token manager, the     *)
(* request wrapper, the pickup resolver, the courier fallback engine and   *)
(* the create-shipment handlers of bot.py, bot_enhanced.py and             *)
(* control_bot.py.                                                         *)
(*                                                                         *)
(* Time is counted in hours.  A handler runs in seconds, so the clock only *)
(* advances between gateway requests, never inside one.                    *)
(***************************************************************************)
EXTENDS Integers, Sequences, FiniteSets, TLC

VARIABLES
    phase,            \* "start" | "running" | "exited": main() of the bot process
    now,              \* time.time(), in hours
    advances,         \* number of clock advances so far (bounded)
    auth_token,       \* module global auth_token (NoToken = None)
    token_expiry,     \* module global token_expiry
    session_headers,  \* token carried by session.headers["Authorization"]
    lastReq,          \* ghost: what the last call of shiprocket_request did
    pickup_map,       \* module global pickup_map: its keys, in insertion order
    pk,               \* pickup resolver on its own: the label resolved and the result
    fb,               \* fallback engine on its own: its inputs and its result
    sp,               \* schedule_pickup on its own: the response and what it returned
    co,               \* create_order on its own: the response and what it returned
    gt,               \* concurrent get_token executions: their positions and locals
    rp,               \* refresh_pickups on its own: the listing and what it returned
    bot,              \* which program runs: "basic" (bot.py), "enhanced", "control"
    user_data,        \* context.user_data of the operator's chat
    shipment_awb_map, \* module global shipment_awb_map: shipment_id -> awb
    carrier,          \* the remote side: its orders, shipments and the AWBs it issued
    h,                \* the handler in progress: its position and what it has done
    pending,          \* the dup_yes buttons on screen: the phone of each payload
    offered,          \* the schedule_yes buttons on screen: the shipment of each
    reported,         \* ghost: the (shipment, awb) pairs told to the operator
    ledger,           \* the (shipment, awb) pairs saved to the order ledger
    pickup_scheduled, \* the shipments whose ledger record has pickup_scheduled = True
    order_count,      \* the "count" of order_count.json
    om,               \* bot_enhanced.py with orders_manager.py: orders.json and the dialogue
    conv,             \* bot.py: the flags of context.user_data and products.json
    db,               \* shared_database.py: the orders file and the counter file
    rb                \* report_bot.py: the subscriber list and the alerts sent

tokVars == <<auth_token, token_expiry, session_headers>>
gwVars == <<phase, now, advances, auth_token, token_expiry, session_headers, lastReq>>
botVars == <<bot, user_data, shipment_awb_map, carrier, h, pending, offered, reported,
             ledger, pickup_scheduled, order_count>>
vars == <<phase, now, advances, auth_token, token_expiry, session_headers, lastReq,
          pickup_map, pk, fb, sp, co, gt, rp, bot, user_data, shipment_awb_map, carrier, h, pending,
          offered, reported, ledger, pickup_scheduled, order_count, om, conv, db, rb>>
auxVars == <<om, conv, db, rb>>

----------------------------------------------------------------------------
(* Bounds of the model *)

MaxAdvances == 2

(* Program constants *)

TokenTTLHours == 23

NoToken == 0
Tokens == {1, 2}
\* what the login endpoint answers: a body without "token" (or an exception), or a token
LoginResp == {NoToken} \cup Tokens
\* the same where it does not matter which token a login returns
LoginOnce == {NoToken, 1}
\* what a dispatched request comes back with
Resp == {"neterr", "s401", "fail", "ok"}
\* bot.py:677  (datetime.now() - order_date).days < 7
DupWindowDays == 7

\* the clock steps the model takes: an hour, which leaves a fresh token valid, and an
\* hour less than the duplicate window, which expires the token and, with the hour,
\* closes the window
ClockSteps == {1, DupWindowDays * 24 - 1}

----------------------------------------------------------------------------
(* Token manager: bot.py get_token / ensure_valid_token *)

\* the token state threaded through one request
TokState(tok, exp, hdr) == [tok |-> tok, exp |-> exp, hdr |-> hdr]

\* bot.py:128  auth_token and time.time() < token_expiry
TokenValid(T, t) == T.tok # NoToken /\ t < T.exp

\* a get_token that trusts any cached token, expired or not
get_token_NoExpiry(T, t, force, resp) ==
    IF ~force /\ T.tok # NoToken
    THEN [T |-> T, raised |-> FALSE, logins |-> 0, ret |-> T.tok]
    ELSE IF resp = NoToken
    THEN [T |-> T, raised |-> TRUE, logins |-> 1, ret |-> NoToken]
    ELSE [T |-> TokState(resp, t + TokenTTLHours, resp),
          raised |-> FALSE, logins |-> 1, ret |-> resp]

\* a get_token that logs in on every call
get_token_NoCache(T, t, force, resp) ==
    IF resp = NoToken
    THEN [T |-> T, raised |-> TRUE, logins |-> 1, ret |-> NoToken]
    ELSE [T |-> TokState(resp, t + TokenTTLHours, resp),
          raised |-> FALSE, logins |-> 1, ret |-> resp]

\* get_token(force_refresh): the token state after the call, whether it raised,
\* how many login requests it posted and the token it returned
get_token(T, t, force, resp) ==
    IF ~force /\ TokenValid(T, t)
    THEN [T |-> T, raised |-> FALSE, logins |-> 0, ret |-> T.tok]
    ELSE IF resp = NoToken
    THEN [T |-> T, raised |-> TRUE, logins |-> 1, ret |-> NoToken]
    ELSE [T |-> TokState(resp, t + TokenTTLHours, resp),
          raised |-> FALSE, logins |-> 1, ret |-> resp]

\* ghost record of one get_token call
GetCall(T, t, force, g) ==
    [force |-> force, valid |-> TokenValid(T, t), cached |-> T.tok,
     logins |-> g.logins, ret |-> g.ret, raised |-> g.raised]

\* an ensure_valid_token that answers a failed forced login with one more
ensure_valid_token_ForceTwice(T, t, l1, l2) ==
    LET g1 == get_token(T, t, FALSE, l1)
        c1 == GetCall(T, t, FALSE, g1)
    IN  IF ~g1.raised
        THEN [T |-> g1.T, raised |-> FALSE, gets |-> <<c1>>]
        ELSE LET g2 == get_token(g1.T, t, TRUE, l2)
                 c2 == GetCall(g1.T, t, TRUE, g2)
             IN  IF ~g2.raised
                 THEN [T |-> g2.T, raised |-> FALSE, gets |-> <<c1, c2>>]
                 ELSE [T |-> g2.T, raised |-> TRUE, gets |-> <<c1, c2, c2>>]

\* ensure_valid_token(): get_token(), and on an exception get_token(force_refresh=True)
ensure_valid_token(T, t, l1, l2) ==
    LET g1 == get_token(T, t, FALSE, l1)
        c1 == GetCall(T, t, FALSE, g1)
    IN  IF ~g1.raised
        THEN [T |-> g1.T, raised |-> FALSE, gets |-> <<c1>>]
        ELSE LET g2 == get_token(g1.T, t, TRUE, l2)
             IN  [T |-> g2.T, raised |-> g2.raised,
                  gets |-> <<c1, GetCall(g1.T, t, TRUE, g2)>>]

\* ghost record of one dispatch: session.request(...) leaving the process
Dispatch(T, t) == [valid |-> TokenValid(T, t), hdr |-> T.hdr, tok |-> T.tok]

----------------------------------------------------------------------------
(* Request wrapper: bot.py shiprocket_request *)

\* the responses the remote side gives to one request made in token state T at time
\* t, with logins answered from L; a response nobody asks for is left at a default
Env(T, t, L) ==
    LET v == TokenValid(T, t)
        L1 == IF v THEN {NoToken} ELSE L
        L2(a) == IF ~v /\ a = NoToken THEN L ELSE {NoToken}
        R1(a, b) == IF ~v /\ a = NoToken /\ b = NoToken THEN {"ok"} ELSE Resp
        L3(c) == IF c = "s401" THEN L ELSE {NoToken}
        R2(c, d) == IF c = "s401" /\ d # NoToken THEN Resp ELSE {"ok"}
    IN  UNION { UNION { UNION { UNION {
            { [l1 |-> a, l2 |-> b, r1 |-> c, l3 |-> d, r2 |-> f] : f \in R2(c, d) }
            : d \in L3(c) } : c \in R1(a, b) } : b \in L2(a) } : a \in L1 }

ReqResult(T, out, gets, disp, trace) ==
    [T |-> T, out |-> out, gets |-> gets, disp |-> disp, trace |-> trace]

LoginTrace(gets) ==
    [i \in 1..Len(gets) |->
        IF gets[i].logins = 0 THEN "cached"
        ELSE IF gets[i].force THEN "flogin" ELSE "login"]

\* a wrapper that keeps retrying: a second 401 triggers another refresh and dispatch
shiprocket_request_RetryTwice(T, t, e) ==
    LET ev == ensure_valid_token(T, t, e.l1, e.l2)
        tr0 == LoginTrace(ev.gets)
    IN  IF ev.raised THEN ReqResult(ev.T, "raised", ev.gets, <<>>, tr0)
        ELSE LET d1 == Dispatch(ev.T, t)
             IN  IF e.r1 = "neterr"
                 THEN ReqResult(ev.T, "raised", ev.gets, <<d1>>, Append(tr0, "dispatch"))
                 ELSE IF e.r1 # "s401"
                 THEN ReqResult(ev.T, e.r1, ev.gets, <<d1>>, Append(tr0, "dispatch"))
                 ELSE LET g3 == get_token(ev.T, t, TRUE, e.l3)
                          gets3 == Append(ev.gets, GetCall(ev.T, t, TRUE, g3))
                          tr3 == tr0 \o <<"dispatch", "flogin">>
                          d2 == Dispatch(g3.T, t)
                      IN  IF g3.raised
                          THEN ReqResult(g3.T, "raised", gets3, <<d1>>, tr3)
                          ELSE IF e.r2 = "s401"
                          THEN ReqResult(g3.T, "raised",
                                         Append(gets3, GetCall(g3.T, t, TRUE, g3)),
                                         <<d1, d2, d2>>,
                                         tr3 \o <<"dispatch", "flogin", "dispatch">>)
                          ELSE ReqResult(g3.T, IF e.r2 = "neterr" THEN "raised" ELSE e.r2,
                                         gets3, <<d1, d2>>, Append(tr3, "dispatch"))

\* shiprocket_request(method, url, retry=True): out is "raised" when the call raises,
\* else the status class of the response it returns
shiprocket_request(T, t, e) ==
    LET ev == ensure_valid_token(T, t, e.l1, e.l2)
        tr0 == LoginTrace(ev.gets)
    IN  IF ev.raised THEN ReqResult(ev.T, "raised", ev.gets, <<>>, tr0)
        ELSE LET d1 == Dispatch(ev.T, t)
             IN  IF e.r1 = "neterr"
                 THEN ReqResult(ev.T, "raised", ev.gets, <<d1>>, Append(tr0, "dispatch"))
                 ELSE IF e.r1 # "s401"
                 THEN ReqResult(ev.T, e.r1, ev.gets, <<d1>>, Append(tr0, "dispatch"))
                 ELSE LET g3 == get_token(ev.T, t, TRUE, e.l3)
                          gets3 == Append(ev.gets, GetCall(ev.T, t, TRUE, g3))
                          tr3 == tr0 \o <<"dispatch", "flogin">>
                          d2 == Dispatch(g3.T, t)
                      IN  IF g3.raised
                          THEN ReqResult(g3.T, "raised", gets3, <<d1>>, tr3)
                          ELSE IF e.r2 \in {"neterr", "s401"}
                          THEN ReqResult(g3.T, "raised", gets3, <<d1, d2>>,
                                         Append(tr3, "dispatch"))
                          ELSE ReqResult(g3.T, e.r2, gets3, <<d1, d2>>,
                                         Append(tr3, "dispatch"))

----------------------------------------------------------------------------
(* How the helpers of the three bots reach the carrier *)

Bots == {"basic", "enhanced", "control"}

\* bot.py sends every helper through shiprocket_request ("wrapped"); bot_enhanced.py
\* calls ensure_valid_token() in refresh_pickups, create_order and cancel_shipment
\* ("ensure") and control_bot.py get_token() in refresh_pickups and
\* create_order_shiprocket ("get"); their other helpers call session.get or
\* session.post as the session stands ("bare")
call_mode(b, op) ==
    IF b = "basic" THEN "wrapped"
    ELSE IF b = "enhanced"
    THEN IF op \in {"refresh_pickups", "create_order", "cancel_shipment"}
         THEN "ensure" ELSE "bare"
    ELSE IF op \in {"refresh_pickups", "create_order"} THEN "get" ELSE "bare"

\* the token step in front of a helper's session call
token_step(mode, T, t, e) ==
    IF mode = "ensure" THEN ensure_valid_token(T, t, e.l1, e.l2)
    ELSE IF mode = "get"
    THEN LET g == get_token(T, t, FALSE, e.l1)
         IN  [T |-> g.T, raised |-> g.raised, gets |-> <<GetCall(T, t, FALSE, g)>>]
    ELSE [T |-> T, raised |-> FALSE, gets |-> <<>>]

\* one helper's exchange with the carrier: a 401 is, outside shiprocket_request, a
\* status like any other that is not 200
gateway_call(mode, T, t, e) ==
    IF mode = "wrapped" THEN shiprocket_request(T, t, e)
    ELSE LET ev == token_step(mode, T, t, e)
             tr0 == LoginTrace(ev.gets)
         IN  IF ev.raised THEN ReqResult(ev.T, "raised", ev.gets, <<>>, tr0)
             ELSE ReqResult(ev.T,
                            IF e.r1 = "neterr" THEN "raised"
                            ELSE IF e.r1 = "s401" THEN "fail" ELSE e.r1,
                            ev.gets, <<Dispatch(ev.T, t)>>, Append(tr0, "dispatch"))

\* whether each login the call posted succeeded, in the order they were posted
LoginsPosted(gets) ==
    LET RECURSIVE posted(_)
        posted(i) ==
            IF i > Len(gets) THEN <<>>
            ELSE IF gets[i].logins = 0 THEN posted(i + 1)
            ELSE <<~gets[i].raised>> \o posted(i + 1)
    IN  posted(1)

\* what one helper call can come to: the token state it leaves, how it ended, whether
\* a request left the process, whether one left without a valid token, whether the
\* last one ended in a network error, and how the logins it posted went
CallOutcomes(b, op, T, t) ==
    { LET r == gateway_call(call_mode(b, op), T, t, e)
      IN  [T |-> r.T, out |-> r.out, sent |-> r.disp # <<>>,
           stale |-> \E i \in 1..Len(r.disp) : ~r.disp[i].valid,
           neterr |-> \/ Len(r.disp) = 1 /\ e.r1 = "neterr"
                      \/ Len(r.disp) = 2 /\ e.r2 = "neterr",
           logins |-> LoginsPosted(r.gets)]
      : e \in Env(T, t, LoginOnce) }

----------------------------------------------------------------------------
(* Pickup resolver: bot.py normalize_pickup_obj *)

\* Strings are sequences of characters.  Characters of the model: word characters
\* "a" "b" "c" "A" "B" and the non-word characters "-" and " ".
Lower(ch) == IF ch = "A" THEN "a" ELSE IF ch = "B" THEN "b" ELSE ch

IsWordChar(ch) == ch \in {"a", "b", "c", "A", "B"}

\* str.lower()
lower(s) == [i \in 1..Len(s) |-> Lower(s[i])]

\* re.sub(r"\W", "", s): drop every non-word character
RECURSIVE strip_nonword(_)
strip_nonword(s) ==
    IF s = <<>> THEN <<>>
    ELSE IF IsWordChar(Head(s)) THEN <<Head(s)>> \o strip_nonword(Tail(s))
    ELSE strip_nonword(Tail(s))

\* re.sub(r"\W", "", x.lower())
norm(s) == strip_nonword(lower(s))

\* Python's  x in y  on strings
IsSubstr(x, y) ==
    \E i \in 0..(Len(y) - Len(x)) : SubSeq(y, i + 1, i + Len(x)) = x

\* bot.py:114  k == norm_key or k in norm_key or norm_key in k
pickup_match(k, norm_key) == k = norm_key \/ IsSubstr(k, norm_key) \/ IsSubstr(norm_key, k)

\* a resolver without the default: no match, no location
normalize_pickup_obj_NoDefault(parsed, pm) ==
    LET k == norm(parsed.text)
        hits == { i \in 1..Len(pm) : pickup_match(k, norm(pm[i])) }
    IN  IF parsed.given /\ parsed.text # <<>> /\ hits # {}
        THEN CHOOSE i \in hits : \A j \in hits : i <= j
        ELSE 0

\* normalize_pickup_obj(parsed): the position in pickup_map of the location returned,
\* 0 for None.  parsed.given is whether the "pickup" field is there at all.
normalize_pickup_obj(parsed, pm) ==
    LET k == norm(parsed.text)
        hits == { i \in 1..Len(pm) : pickup_match(k, norm(pm[i])) }
    IN  IF parsed.given /\ parsed.text # <<>> /\ hits # {}
        THEN CHOOSE i \in hits : \A j \in hits : i <= j
        ELSE IF Len(pm) > 0 THEN 1 ELSE 0

\* one record of the pickup listing: its "pickup_location" (<<>> when the field is
\* missing or empty) and its "pin_code"
Entry(name, pin) == [kind |-> "record", name |-> name, pin |-> pin]

\* a record whose "pickup_location" is a number, and an element of the listing that is
\* no record at all (a string, null)
NumberNamed(pin) == [kind |-> "number_name", name |-> <<>>, pin |-> pin]
NotARecord == [kind |-> "no_record", name |-> <<>>, pin |-> ""]

\* bot.py:220-224  the comprehension raises AttributeError: p.get on an element that
\* is no record, or .lower() on a name that is truthy and no string
listing_raises(lst) == \E i \in 1..Len(lst) : lst[i].kind # "record"

\* d[k] = v on a dict kept as the sequence of its (key, value) pairs in insertion
\* order: a key already there keeps its place and takes the new value
dict_put(m, k, v) ==
    IF \E i \in 1..Len(m) : m[i][1] = k
    THEN [i \in 1..Len(m) |-> IF m[i][1] = k THEN <<k, v>> ELSE m[i]]
    ELSE Append(m, <<k, v>>)

\* bot.py:220-224  {p["pickup_location"].lower(): p for p in lst
\*                  if p.get("pickup_location")}, built on m
RECURSIVE pickup_dict(_, _)
pickup_dict(lst, m) ==
    IF lst = <<>> THEN m
    ELSE pickup_dict(Tail(lst),
                     IF Head(lst).name # <<>>
                     THEN dict_put(m, lower(Head(lst).name), Head(lst))
                     ELSE m)

\* the keys of a dict, in insertion order
dict_keys(m) == [i \in 1..Len(m) |-> m[i][1]]

\* how a refresh can go: "ok" is status 200 with a listing, "fail" another status,
\* "badjson" status 200 with a body that is not JSON, "malformed" status 200 with JSON
\* of another shape (line 218 or the comprehension raises), "raised" a request that
\* raised (network or login failure)
RefreshOutcomes == {"ok", "fail", "badjson", "malformed", "raised"}

RpResult(ok, map) == [ok |-> ok, map |-> map]

\* a refresh that adds the listing to the map it finds
refresh_Merge(out, lst, old) ==
    IF out = "ok" THEN RpResult(TRUE, pickup_dict(lst, old))
    ELSE RpResult(FALSE, old)

\* bot.py:205-237  refresh_pickups(): whether it returned True and the pickup_map it
\* leaves, old being the map it found
refresh(out, lst, old) ==
    IF out = "ok" /\ ~listing_raises(lst) THEN RpResult(TRUE, pickup_dict(lst, <<>>))
    ELSE RpResult(FALSE, old)

\* refresh_pickups as main() runs it: the keys of the new pickup_map, body being the
\* listing of the response.  bot.py and bot_enhanced.py leave the map alone unless the
\* status is 200; control_bot.py reads whatever JSON came, an error body giving {}.
refresh_pickups(b, out, body, pm) ==
    IF out = "ok" THEN dict_keys(refresh(out, body, <<>>).map)
    ELSE IF b = "control" /\ out = "fail" THEN <<>>
    ELSE pm

\* the keys refresh_pickups can store: pickup_location.lower(), never empty
KeyUniverse ==
    { <<"a">>, <<"b">>, <<"a", "b">>, <<"a", "-", "b">>, <<"b", "a">>, <<"-">> }

\* the labels an operator (or the parsing step) can hand over
LabelTexts ==
    { <<>>, <<"a">>, <<"A", "b">>, <<"b">>, <<"-">>, <<" ", "-">>, <<"c">>,
      <<"a", "b", "c">>, <<"B", " ", "a">> }

Labels == { [given |-> FALSE, text |-> <<>>] } \cup
          { [given |-> TRUE, text |-> x] : x \in LabelTexts }

\* the pickup maps of at most n locations: distinct keys in insertion order
PickupMaps(n) ==
    UNION { { m \in [1..k -> KeyUniverse] : \A i, j \in 1..k : i # j => m[i] # m[j] }
            : k \in 0..n }

MaxPickups == 2

----------------------------------------------------------------------------
(* Courier fallback engine: bot.py create_shipment_with_fallback *)

NoAwb == 0
AWBs == {1, 2}
NoRate == 0 - 1
NoId == 0

\* which of the words looked for a string contains once lower-cased
LowerHas(str, kw) ==
    CASE kw = "surface"   -> str \in {"surface", "Surface", "Delhivery Surface"}
      [] kw = "air"       -> str \in {"air", "Air"}
      [] kw = "bluedart"  -> str \in {"Bluedart"}
      [] kw = "delhivery" -> str \in {"Delhivery Surface"}
      [] kw = "dtdc"      -> str \in {"DTDC"}
      [] kw = "insufficient balance" -> str \in {"Insufficient Balance in wallet"}
      [] OTHER -> FALSE

\* str.title() on the service modes of the model
Title(m) ==
    CASE m = "air" -> "Air"
      [] m = "surface" -> "Surface"
      [] OTHER -> m

Cand(name, mode, stype, rate, ids) ==
    [courier_name |-> name, mode |-> mode, service_type |-> stype, rate |-> rate,
     ids |-> ids]

NoCourier == Cand("", "", "", NoRate, <<NoId, NoId, NoId, NoId>>)

\* the candidate records the serviceability endpoint can return; ids holds the fields
\* courier_company_id, courier_id, courierId, id
CourierUniverse ==
    { Cand("Delhivery Surface", "surface", "", 150, <<1, NoId, NoId, NoId>>),
      Cand("XYZ Express", "air", "", 120, <<NoId, NoId, NoId, 2>>),
      Cand("Ekart", "", "Air", 120, <<NoId, 3, NoId, NoId>>),
      Cand("Bluedart", "air", "", 200, <<NoId, NoId, NoId, NoId>>),
      Cand("DTDC", "", "", NoRate, <<3, NoId, NoId, 1>>),
      Cand("XYZ Express", "Surface", "", 90, <<2, NoId, NoId, NoId>>),
      Cand("Ekart", "air", "", NoRate, <<NoId, NoId, 1, NoId>>) }

CourierIds == {1, 2, 3}

\* c.get("mode") or c.get("service_type") or ""
mode_of(c) == IF c.mode # "" THEN c.mode ELSE c.service_type

\* mode_pref(c)
mode_pref(c) ==
    IF LowerHas(mode_of(c), "surface") THEN 0
    ELSE IF LowerHas(mode_of(c), "air") THEN 1
    ELSE 2

\* c.get("rate", 1e12); 1e12 does not fit the checker's integers, and 2000000000
\* stands for it: like 1e12 it lies above every rate quoted
rate_key(c) == IF c.rate = NoRate THEN 2000000000 ELSE c.rate

\* a policy that puts delhivery in front of bluedart
base_tier_DelhiveryFirst(c) ==
    IF LowerHas(c.courier_name, "delhivery") THEN 1
    ELSE IF LowerHas(c.courier_name, "bluedart") THEN 2
    ELSE IF LowerHas(c.courier_name, "dtdc") THEN 3
    ELSE 99

\* the fixed tiers of priority_key
base_tier(c) ==
    IF LowerHas(c.courier_name, "bluedart") THEN 1
    ELSE IF LowerHas(c.courier_name, "delhivery") THEN 2
    ELSE IF LowerHas(c.courier_name, "dtdc") THEN 3
    ELSE 99

\* bot.py:425  isinstance(val, int): Python's bool is a subclass of int, so a JSON
\* true or false passes as well, and compares as 1 or 0
is_int(x) == x.kind \in {"int", "bool"}

\* priority_json.get(key) for key = "<name>[ <Mode>]"; the table is a set of entries,
\* each with the kind of JSON value it holds, and is empty for a missing, unreadable
\* or empty file
pj_hits(c, pj) ==
    { x \in pj : x.name = c.courier_name /\ x.mode = Title(mode_of(c)) /\ is_int(x) }

\* priority_key(c)
priority_key(c, pj) ==
    IF pj # {} /\ pj_hits(c, pj) # {}
    THEN <<(CHOOSE x \in pj_hits(c, pj) : TRUE).val, mode_pref(c), rate_key(c)>>
    ELSE <<base_tier(c), mode_pref(c), rate_key(c)>>

\* Python's tuple comparison  a < b
KeyLess(a, b) ==
    \/ a[1] < b[1]
    \/ a[1] = b[1] /\ a[2] < b[2]
    \/ a[1] = b[1] /\ a[2] = b[2] /\ a[3] < b[3]

\* sorted() is stable: c goes behind every element whose key is not greater
RECURSIVE sorted_insert(_, _, _)
sorted_insert(srt, c, pj) ==
    IF srt = <<>> THEN <<c>>
    ELSE IF KeyLess(priority_key(c, pj), priority_key(Head(srt), pj))
    THEN <<c>> \o srt
    ELSE <<Head(srt)>> \o sorted_insert(Tail(srt), c, pj)

\* a sort that leaves the list as the carrier sent it
couriers_sorted_Unsorted(cs, pj) == cs

\* couriers_sorted = sorted(couriers, key=priority_key)
RECURSIVE sort_prefix(_, _, _)
sort_prefix(cs, n, pj) ==
    IF n = 0 THEN <<>> ELSE sorted_insert(sort_prefix(cs, n - 1, pj), cs[n], pj)

couriers_sorted(cs, pj) == sort_prefix(cs, Len(cs), pj)

\* courier_company_id or courier_id or courierId or id
courier_id(c) ==
    IF c.ids[1] # NoId THEN c.ids[1]
    ELSE IF c.ids[2] # NoId THEN c.ids[2]
    ELSE IF c.ids[3] # NoId THEN c.ids[3]
    ELSE c.ids[4]

\* a quote that does not look at the status of the response
get_available_couriers_IgnoreStatus(out, body) == body

\* get_available_couriers: the list of the body on HTTP 200, [] on anything else
get_available_couriers(out, body) == IF out = "ok" THEN body ELSE <<>>

FbResult(courier, awb, rate, tried) ==
    [courier |-> courier, awb |-> awb, rate |-> rate, tried |-> tried]

\* a loop that takes whatever assign_awb returned for a tracking number
awb_ok_Always(awb) == TRUE

\* bot.py:456  if awb:
awb_ok(awb) == awb # NoAwb

\* the identifiers of the candidates at positions a..b that have one, in order
RECURSIVE ids_between(_, _, _)
ids_between(srt, a, b) ==
    IF a > b THEN <<>>
    ELSE IF courier_id(srt[a]) = NoId THEN ids_between(srt, a + 1, b)
    ELSE <<courier_id(srt[a])>> \o ids_between(srt, a + 1, b)

\* a loop that tries every candidate and keeps the last one that accepted
fallback_loop_LastSuccess(srt, i, awbOf, tried) ==
    LET acc == { j \in i..Len(srt) : courier_id(srt[j]) # NoId
                                      /\ awbOf[courier_id(srt[j])] # NoAwb }
        all == tried \o ids_between(srt, i, Len(srt))
    IN  IF acc = {} THEN FbResult(NoCourier, NoAwb, NoRate, all)
        ELSE LET j == CHOOSE x \in acc : \A y \in acc : y <= x
             IN  FbResult(srt[j], awbOf[courier_id(srt[j])], srt[j].rate, all)

\* a loop that gives up when the first candidate it can try refuses
fallback_loop_FirstOnly(srt, i, awbOf, tried) ==
    LET withid == { j \in i..Len(srt) : courier_id(srt[j]) # NoId }
    IN  IF withid = {} THEN FbResult(NoCourier, NoAwb, NoRate, tried)
        ELSE LET j == CHOOSE x \in withid : \A y \in withid : x <= y
                 id == courier_id(srt[j])
             IN  IF awbOf[id] # NoAwb
                 THEN FbResult(srt[j], awbOf[id], srt[j].rate, Append(tried, id))
                 ELSE FbResult(NoCourier, NoAwb, NoRate, Append(tried, id))

\* a loop that stops at the first candidate without an identifier
fallback_loop_StopAtNoId(srt, i, awbOf, tried) ==
    LET noid == { j \in i..Len(srt) : courier_id(srt[j]) = NoId }
        stop == IF noid = {} THEN Len(srt) + 1
                ELSE CHOOSE x \in noid : \A y \in noid : x <= y
        acc == { j \in i..(stop - 1) : awbOf[courier_id(srt[j])] # NoAwb }
    IN  IF acc = {}
        THEN FbResult(NoCourier, NoAwb, NoRate, tried \o ids_between(srt, i, stop - 1))
        ELSE LET j == CHOOSE x \in acc : \A y \in acc : x <= y
             IN  FbResult(srt[j], awbOf[courier_id(srt[j])], srt[j].rate,
                          tried \o ids_between(srt, i, j))

\* the for loop of create_shipment_with_fallback from position i on; awbOf is what
\* assign_awb returns for each courier id, tried the ids it has been called with
RECURSIVE fallback_loop(_, _, _, _)
fallback_loop(srt, i, awbOf, tried) ==
    IF i > Len(srt) THEN FbResult(NoCourier, NoAwb, NoRate, tried)
    ELSE IF courier_id(srt[i]) = NoId THEN fallback_loop(srt, i + 1, awbOf, tried)
    ELSE IF awb_ok(awbOf[courier_id(srt[i])])
    THEN FbResult(srt[i], awbOf[courier_id(srt[i])], srt[i].rate,
                  Append(tried, courier_id(srt[i])))
    ELSE fallback_loop(srt, i + 1, awbOf, Append(tried, courier_id(srt[i])))

\* create_shipment_with_fallback: (None, None, None) is FbResult(NoCourier, NoAwb, NoRate, _)
create_shipment_with_fallback(out, body, pj, awbOf) ==
    LET couriers == get_available_couriers(out, body)
    IN  IF couriers = <<>> THEN FbResult(NoCourier, NoAwb, NoRate, <<>>)
        ELSE fallback_loop(couriers_sorted(couriers, pj), 1, awbOf, <<>>)

----------------------------------------------------------------------------
(* Pickup scheduling: bot.py schedule_pickup *)

\* bot.py:379  status == 1
StatusScheduled == 1
\* bot.py:382  status == 3
StatusAlready == 3

\* the values of a "status" field; 0 stands for a field that is missing or falsy
StatusCodes == {0, StatusScheduled, 2, StatusAlready}

\* the bodies the pickup endpoint answers with: json is whether the body parses,
\* flag whether "pickup_scheduled" is truthy, status the top-level "status", response
\* whether "response" is missing, an object or something else, nested the "status"
\* inside it, generated whether the text of the body holds "already generated"
PickupResponses ==
    [json : BOOLEAN, flag : BOOLEAN, status : StatusCodes,
     response : {"absent", "dict", "other"}, nested : StatusCodes, generated : BOOLEAN]

SpResult(ok, msg) == [ok |-> ok, msg |-> msg]

\* bot.py:368  resp_json.get("status") or response_data.get("status")
pickup_status(body) ==
    IF body.status # 0 THEN body.status
    ELSE IF body.response = "dict" THEN body.nested
    ELSE 0

\* a schedule_pickup that reads the body without looking at the HTTP status
schedule_pickup_AnyStatus(out, body) ==
    IF out = "raised" THEN SpResult(FALSE, "error")
    ELSE IF ~body.json THEN SpResult(FALSE, "invalid_response")
    ELSE IF body.response = "other" THEN SpResult(FALSE, "error")
    ELSE IF body.flag \/ pickup_status(body) = StatusScheduled
    THEN SpResult(TRUE, "scheduled")
    ELSE IF pickup_status(body) = StatusAlready
    THEN SpResult(TRUE, "already_scheduled")
    ELSE IF body.generated THEN SpResult(FALSE, "already_generated")
    ELSE SpResult(FALSE, "not_scheduled")

\* schedule_pickup(shipment_ids): out is how the request ended, body what came back.
\* A "response" that is no object makes response_data.get raise, which line 392 catches.
schedule_pickup(out, body) ==
    IF out = "raised" THEN SpResult(FALSE, "error")
    ELSE IF ~body.json THEN SpResult(FALSE, "invalid_response")
    ELSE IF body.response = "other" THEN SpResult(FALSE, "error")
    ELSE IF out # "ok" THEN SpResult(FALSE, "api_error")
    ELSE IF body.flag \/ pickup_status(body) = StatusScheduled
    THEN SpResult(TRUE, "scheduled")
    ELSE IF pickup_status(body) = StatusAlready
    THEN SpResult(TRUE, "already_scheduled")
    ELSE IF body.generated THEN SpResult(FALSE, "already_generated")
    ELSE SpResult(FALSE, "not_scheduled")

----------------------------------------------------------------------------
(* State of the bots *)

\* the customers: one phone, so that every submission is for the same customer
Phones == {1}
NoOrder == 0 - 1
MaxShipments == 2

CurT == TokState(auth_token, token_expiry, session_headers)

SetToken(T) ==
    /\ auth_token' = T.tok
    /\ token_expiry' = T.exp
    /\ session_headers' = T.hdr

NoReq == [first |-> "none", second |-> "none", out |-> "none", gets |-> <<>>,
          disp |-> <<>>, trace |-> <<>>]

\* no handler running.  op is the handler, pc its position, order and pickup the
\* submission it works on and the location resolved for it, payload the order document
\* it holds, args what it passed to the courier quote.  Ghosts: calls, the helpers it
\* has called, in order; stale, those that sent a request without a valid token; lost,
\* the helper just called if its request ended in a network error; lf, how the logins
\* of the handler went (see LoginsSeen); want, the quote arguments of the submission a confirmation
\* belongs to; dup, whether, when a create-shipment submission came in, the carrier
\* held an order of that phone less than DupWindowDays old; label, what generate_label
\* returned to the handler ("url", or "null" for None); err, the error text
\* create_order returned to it; nopickup, whether the pickup resolver has no location
\* for the submission
NoHandler ==
    [pc |-> "idle", op |-> "none", phone |-> 0, sid |-> 0, cands |-> <<>>, idx |-> 0,
     awb |-> NoAwb, order |-> <<>>, pickup |-> <<>>, payload |-> <<>>, args |-> <<>>,
     want |-> <<>>, calls |-> <<>>, stale |-> {}, lost |-> "none", lf |-> 0,
     dup |-> FALSE, nopickup |-> FALSE, label |-> "none", err |-> "none",
     reply |-> "none"]

\* the remote side before the first order: orders is, for each phone, when its last
\* order was created, shipments the number of shipment ids given out, issued the
\* (shipment, awb) pairs assign_awb has answered with
NoCarrier == [orders |-> [p \in Phones |-> NoOrder], shipments |-> 0, issued |-> {}]

\* module load: auth_token = None, token_expiry = 0, main() not yet run
InitToken ==
    /\ phase = "start"
    /\ now = 0
    /\ advances = 0
    /\ auth_token = NoToken
    /\ token_expiry = 0
    /\ session_headers = NoToken
    /\ lastReq = NoReq

\* module load: shipment_awb_map = {}, no conversation yet
InitShop(b) ==
    /\ bot = b
    /\ user_data = [awaiting_shipment |-> FALSE]
    /\ shipment_awb_map = <<>>
    /\ carrier = NoCarrier
    /\ h = NoHandler
    /\ pending = {}
    /\ offered = {}
    /\ reported = {}
    /\ ledger = {}
    /\ pickup_scheduled = {}
    /\ order_count = 0

NoOm == [pc |-> "none"]
NoConv == [pc |-> "none"]
NoDb == [pc |-> "none"]
NoRb == [pc |-> "none"]

\* the same, the parts of the repository a specification leaves out at rest
InitBot(b) ==
    /\ InitShop(b)
    /\ om = NoOm
    /\ conv = NoConv
    /\ db = NoDb
    /\ rb = NoRb

NoParsed == [given |-> FALSE, text |-> <<>>]
NoPk == [done |-> FALSE, parsed |-> NoParsed, res |-> 0]
NoFb == [done |-> FALSE, quote |-> "ok", body |-> <<>>, pj |-> {},
         awbOf |-> [i \in CourierIds |-> NoAwb],
         res |-> FbResult(NoCourier, NoAwb, NoRate, <<>>)]

NoSp == [done |-> FALSE, out |-> "ok",
         body |-> [json |-> TRUE, flag |-> FALSE, status |-> 0, response |-> "absent",
                   nested |-> 0, generated |-> FALSE],
         res |-> SpResult(FALSE, "none")]

NoCo == [done |-> FALSE]
NoGt == <<>>
NoRp == [done |-> FALSE]

\* no handler is running
Idle == h.pc = "idle"

\* the pickup listings main() can get
PickupBodies == { <<>>, << Entry(<<"A">>, "600001") >> }

\* main(): get_token(), then refresh_pickups().  A failed login ends bot.py and
\* bot_enhanced.py; control_bot.py logs it and starts polling all the same.
Main ==
    /\ phase = "start"
    /\ \E resp \in LoginOnce :
          LET g == get_token(CurT, now, FALSE, resp)
          IN  IF g.raised
              THEN /\ phase' = IF bot = "control" THEN "running" ELSE "exited"
                   /\ SetToken(g.T)
                   /\ UNCHANGED pickup_map
              ELSE \E e \in Env(g.T, now, LoginOnce), body \in PickupBodies :
                      LET r == gateway_call(call_mode(bot, "refresh_pickups"),
                                            g.T, now, e)
                      IN  /\ phase' = "running"
                          /\ SetToken(r.T)
                          /\ pickup_map' = refresh_pickups(bot, r.out, body, pickup_map)
    /\ UNCHANGED <<auxVars, now, advances, lastReq, pk, fb, sp, co, gt, rp, botVars>>

\* time passes between two handlers
Advance ==
    /\ phase = "running"
    /\ Idle
    /\ advances < MaxAdvances
    /\ \E d \in ClockSteps : now' = now + d
    /\ advances' = advances + 1
    /\ UNCHANGED <<auxVars, phase, auth_token, token_expiry, session_headers, lastReq,
                   pickup_map, pk, fb, sp, co, gt, rp, botVars>>

----------------------------------------------------------------------------
(* The gateway on its own: bot.py after main(), requests and clock advances *)

InitGateway ==
    /\ InitToken
    /\ pickup_map = <<>>
    /\ pk = NoPk
    /\ fb = NoFb
    /\ sp = NoSp
    /\ co = NoCo
    /\ gt = NoGt
    /\ rp = NoRp
    /\ InitBot("basic")

\* one call of shiprocket_request, with whatever the remote side answers
Request ==
    /\ phase = "running"
    /\ \E e \in Env(CurT, now, LoginResp) :
          LET r == shiprocket_request(CurT, now, e)
          IN  /\ SetToken(r.T)
              /\ lastReq' = [first |-> IF Len(r.disp) >= 1 THEN e.r1 ELSE "none",
                             second |-> IF Len(r.disp) >= 2 THEN e.r2 ELSE "none",
                             out |-> r.out, gets |-> r.gets,
                             disp |-> r.disp, trace |-> r.trace]
    /\ UNCHANGED <<auxVars, phase, now, advances, pickup_map, pk, fb, sp, co, gt, rp, botVars>>

NextGateway == Main \/ Advance \/ Request

SpecGateway == InitGateway /\ [][NextGateway]_vars

----------------------------------------------------------------------------
(* The pickup resolver on its own: any pickup map, any label *)

InitPickup ==
    /\ InitToken
    /\ pickup_map \in PickupMaps(MaxPickups)
    /\ pk = NoPk
    /\ fb = NoFb
    /\ sp = NoSp
    /\ co = NoCo
    /\ gt = NoGt
    /\ rp = NoRp
    /\ InitBot("basic")

\* one call normalize_pickup_obj({"pickup": label})
Resolve ==
    /\ \E parsed \in Labels :
          pk' = [done |-> TRUE, parsed |-> parsed,
                 res |-> normalize_pickup_obj(parsed, pickup_map)]
    /\ UNCHANGED <<auxVars, gwVars, pickup_map, fb, sp, co, gt, rp, botVars>>

NextPickup == Resolve

SpecPickup == InitPickup /\ [][NextPickup]_vars

----------------------------------------------------------------------------
(* The fallback engine on its own: any quote answer, table and AWB outcomes *)

MaxCands == 2

CandLists(n) == UNION { [1..k -> CourierUniverse] : k \in 0..n }

\* the contents courier_priority.json can have ({} for no usable file)
PriorityTables ==
    { {},
      { [name |-> "XYZ Express", mode |-> "Air", kind |-> "int", val |-> 1] },
      { [name |-> "Delhivery Surface", mode |-> "Surface", kind |-> "int", val |-> 100],
        [name |-> "Ekart", mode |-> "Air", kind |-> "str", val |-> 0],
        [name |-> "XYZ Express", mode |-> "surface", kind |-> "int", val |-> 1] },
      { [name |-> "Ekart", mode |-> "Air", kind |-> "bool", val |-> 1] } }

InitFallback ==
    /\ InitToken
    /\ pickup_map = <<>>
    /\ pk = NoPk
    /\ sp = NoSp
    /\ co = NoCo
    /\ gt = NoGt
    /\ rp = NoRp
    /\ InitBot("basic")
    /\ fb \in [done : {FALSE}, quote : {"ok", "fail", "raised"},
               body : CandLists(MaxCands), pj : PriorityTables,
               awbOf : [CourierIds -> {NoAwb} \cup AWBs],
               res : {FbResult(NoCourier, NoAwb, NoRate, <<>>)}]

\* one call create_shipment_with_fallback(shipment_id, ...)
RunFallback ==
    /\ ~fb.done
    /\ fb' = [fb EXCEPT !.done = TRUE,
                        !.res = create_shipment_with_fallback(fb.quote, fb.body,
                                                              fb.pj, fb.awbOf)]
    /\ UNCHANGED <<auxVars, gwVars, pickup_map, pk, sp, co, gt, rp, botVars>>

NextFallback == RunFallback

SpecFallback == InitFallback /\ [][NextFallback]_vars

----------------------------------------------------------------------------
(* The create-shipment handlers and the callbacks of the three bots *)

\* shipment_awb_map[k] = v
MapPut(m, k, v) == [x \in (DOMAIN m) \cup {k} |-> IF x = k THEN v ELSE m[x]]

\* the labels the parsing step hands over here
OrderLabels == { NoParsed, [given |-> TRUE, text |-> <<"b">>] }

\* the candidate lists the serviceability endpoint answers with here
QuoteBodies ==
    { <<>>,
      << Cand("Delhivery Surface", "surface", "", 150, <<1, NoId, NoId, NoId>>) >>,
      << Cand("XYZ Express", "air", "", 120, <<NoId, NoId, NoId, 2>>),
         Cand("Bluedart", "air", "", 200, <<NoId, NoId, NoId, NoId>>) >>,
      << Cand("XYZ Express", "Surface", "", 90, <<2, NoId, NoId, NoId>>),
         Cand("Delhivery Surface", "surface", "", 150, <<1, NoId, NoId, NoId>>) >> }

\* the submissions of the operator, as the parsing step hands them over
Orders ==
    { [phone |-> p, pincode |-> "560001", weight |-> 2, cod |-> TRUE] : p \in Phones }

\* pickup_obj.get("pin_code", "110001") for the location stored under key
pin_code(key) == IF key = <<"a">> THEN "600001" ELSE "110001"

\* dict.get(k, default)
dict_get(d, k, default) == IF k \in DOMAIN d THEN d[k] ELSE default

\* bot.py:610-652  the fields of the order document the handlers read again
compose_payload(order, key) ==
    [pickup_location |-> key, billing_pincode |-> order.pincode,
     billing_phone |-> order.phone,
     payment_method |-> IF order.cod THEN "COD" ELSE "Prepaid",
     weight |-> order.weight]

\* bot.py:714-720, bot_enhanced.py:990-996  the arguments of the courier selection
create_args(order, key) == <<pin_code(key), order.pincode, order.weight, order.cod>>

\* bot.py:850-856  the same after dup_yes, read from the payload of the button
\* (json.dumps and json.loads give these fields back as they were)
dup_yes_args(payload) ==
    <<dict_get(payload, "pickup_postcode", "110001"),
      dict_get(payload, "pincode", "110001"),
      dict_get(payload, "weight", "0.5"),
      dict_get(payload, "payment_method", "") = "COD">>

\* control_bot.py:353-358  the arguments of get_available_couriers
control_args(order, payload) ==
    <<dict_get(payload, "billing_pincode", "560001"),
      dict_get(payload, "billing_pincode", "560001"),
      order.weight, payload.payment_method = "COD">>

\* what GET /orders?search=<phone> answers with on status 200: the orders of the
\* phone with created_at as "%Y-%m-%d %H:%M:%S", or with created_at in another shape
LookupAnswers == {"listed", "baddate"}

\* the carrier holds an order of phone p created less than DupWindowDays ago
RecentOrder(p) ==
    /\ carrier.orders[p] # NoOrder
    /\ (now - carrier.orders[p]) \div 24 < DupWindowDays

\* bot.py:657-695  the duplicate check: the lookup answered 200 and lists an order of
\* the phone whose created_at parses and is less than 7 days old; a lookup that
\* raises, a status that is not 200 and a date that does not parse all pass
duplicate_found(out, ans, created, t) ==
    /\ out = "ok"
    /\ ans = "listed"
    /\ created # NoOrder
    /\ (t - created) \div 24 < DupWindowDays

\* a handler that goes on whatever the engine returned
no_courier_Never(courier, awb) == FALSE

\* bot.py:722, bot_enhanced.py:998  if not courier or not awb
no_courier(courier, awb) == courier = NoCourier \/ awb = NoAwb

\* control_bot.py:369  if not awb
awb_missing(awb) == awb = NoAwb

\* control_bot.py:364  min(couriers, key=lambda x: x.get("rate", 1e12)): the position
\* of the first candidate with the lowest rate
best_courier(cs) ==
    CHOOSE i \in 1..Len(cs) :
        /\ \A j \in 1..Len(cs) : rate_key(cs[i]) <= rate_key(cs[j])
        /\ \A j \in 1..(i - 1) : rate_key(cs[j]) > rate_key(cs[i])

\* the tracking number the carrier issues when it accepts an assignment: its own
\* for every shipment
carrier_awb(sid) == sid

\* a loop that goes back to the candidate it has just tried
next_with_id_Again(cs, i) == IF i > 1 THEN i - 1 ELSE i

\* the first position from i on whose candidate has an identifier (Len + 1 if none):
\* the fallback loop passes over candidates without one
RECURSIVE next_with_id(_, _)
next_with_id(cs, i) ==
    IF i > Len(cs) THEN i
    ELSE IF courier_id(cs[i]) # NoId THEN i
    ELSE next_with_id(cs, i + 1)

\* the two calls whose failure the handlers are meant to put up with
SoftFail == {"get_shipping_quote", "get_available_couriers"}

\* the logins of one handler so far: 0 when none has failed or the last one succeeded,
\* 1 after a failed one, 2 after two failed ones in a row, 3 once another login has
\* been posted after that
RECURSIVE LoginsSeen(_, _)
LoginsSeen(lf, logins) ==
    IF logins = <<>> THEN lf
    ELSE LoginsSeen(IF lf >= 2 THEN 3 ELSE IF Head(logins) THEN 0 ELSE lf + 1,
                    Tail(logins))

\* the handler's note of a helper call that came to r
Called(hh, op, r) ==
    [hh EXCEPT !.calls = Append(@, op),
               !.stale = IF r.stale THEN @ \cup {op} ELSE @,
               !.lost = IF r.neterr /\ op \notin SoftFail THEN op ELSE "none",
               !.lf = LoginsSeen(@, r.logins)]

\* the handler has told the operator reply and is about to return
Finished(hh, reply) ==
    [hh EXCEPT !.pc = "done", !.reply = reply, !.cands = <<>>, !.idx = 0]

InitBots ==
    /\ InitToken
    /\ pickup_map = <<>>
    /\ pk = NoPk
    /\ fb = NoFb
    /\ sp = NoSp
    /\ co = NoCo
    /\ gt = NoGt
    /\ rp = NoRp
    /\ \E b \in Bots : InitBot(b)

\* the operator presses "Create Shipment"
PressCreateShipment ==
    /\ phase = "running"
    /\ Idle
    /\ bot # "control"
    /\ user_data' = [user_data EXCEPT !.awaiting_shipment = TRUE]
    /\ UNCHANGED <<auxVars, gwVars, pickup_map, pk, fb, sp, co, gt, rp, bot, shipment_awb_map, carrier, h,
                   pending, offered, reported, ledger,
                   pickup_scheduled, order_count>>

\* control_bot.py:320  the first location of the map, or "Default" when it is empty
first_pickup(pm) == IF pm # <<>> THEN pm[1] ELSE <<"Default">>

\* a create-shipment submission comes in: the handler starts and resolves the pickup
\* (control_bot.py has no pickup step and goes straight to the order)
StartCreate ==
    /\ phase = "running"
    /\ Idle
    /\ bot = "control" \/ user_data.awaiting_shipment
    /\ \E o \in Orders, parsed \in OrderLabels :
          LET i == normalize_pickup_obj(parsed, pickup_map)
              h0 == [NoHandler EXCEPT !.op = "create", !.phone = o.phone, !.order = o,
                                      !.dup = RecentOrder(o.phone),
                                      !.nopickup = (i = 0)]
              h1 == IF bot = "control"
                    THEN [h0 EXCEPT !.pc = "create",
                                    !.payload = compose_payload(o, first_pickup(pickup_map))]
                    ELSE IF i = 0 THEN Finished(h0, "no_pickup")
                    ELSE [h0 EXCEPT !.pc = "quote", !.pickup = pickup_map[i]]
          IN  h' = h1
    /\ UNCHANGED <<auxVars, gwVars, pickup_map, pk, fb, sp, co, gt, rp, bot, user_data, shipment_awb_map,
                   carrier, pending, offered, reported, ledger,
                   pickup_scheduled, order_count>>

\* "shipping_charges": get_shipping_quote(...) or 0
StepQuote ==
    /\ h.pc = "quote"
    /\ \E r \in CallOutcomes(bot, "get_shipping_quote", CurT, now) :
          /\ SetToken(r.T)
          /\ h' = [Called(h, "get_shipping_quote", r) EXCEPT
                      !.pc = IF bot = "basic" THEN "dup" ELSE "create",
                      !.payload = compose_payload(h.order, h.pickup)]
    /\ UNCHANGED <<auxVars, phase, now, advances, lastReq, pickup_map, pk, fb, sp, co, gt, rp, bot, user_data,
                   shipment_awb_map, carrier, pending, offered, reported, ledger,
                   pickup_scheduled, order_count>>

\* bot.py: the duplicate check in front of create_order
StepDup ==
    /\ h.pc = "dup"
    /\ \E r \in CallOutcomes(bot, "orders_lookup", CurT, now), ans \in LookupAnswers :
          LET hc == Called(h, "orders_lookup", r)
              h1 == IF duplicate_found(r.out, ans, carrier.orders[h.phone], now)
                    THEN Finished(hc, "duplicate")
                    ELSE [hc EXCEPT !.pc = "create"]
          IN  /\ SetToken(r.T)
              /\ h' = h1
              /\ pending' = IF h1.pc = "done"
                            THEN pending \cup {[payload |-> h.payload,
                                                want |-> create_args(h.order, h.pickup)]}
                            ELSE pending
    /\ UNCHANGED <<auxVars, phase, now, advances, lastReq, pickup_map, pk, fb, sp, co, gt, rp, bot, user_data,
                   shipment_awb_map, carrier, offered, reported, ledger,
                   pickup_scheduled, order_count>>

\* the texts with which the carrier declines an order
CreateErrors == {"Insufficient Balance in wallet", "Pincode not serviceable"}

\* the error text create_order returns: r.text when the carrier declined, str(e) when
\* the request raised
create_error(out, text) == IF out = "fail" THEN text ELSE "Shiprocket request error"

\* if not resp: what the handler tells the operator.  bot.py:699-710 and
\* bot_enhanced.py:981-986 look for "insufficient balance" in str(err).lower();
\* the dup_yes branch (bot.py:841-846) and control_bot.py:346-348 reply with the text
create_failed(b, op, err) ==
    IF b # "control" /\ op = "create" /\ LowerHas(err, "insufficient balance")
    THEN "insufficient_balance"
    ELSE "carrier_rejected"

\* a handler that goes on whatever create_order returned
order_created_Always(out) == TRUE

\* bot.py:699, 841, bot_enhanced.py:981, control_bot.py:346  if not resp: create_order
\* returned a shipment
order_created(out) == out = "ok"

\* create_order(payload); the carrier gives out shipment ids in turn
StepCreate ==
    /\ h.pc = "create"
    /\ \E r \in CallOutcomes(bot, "create_order", CurT, now), text \in CreateErrors :
          /\ r.out = "ok" => carrier.shipments < MaxShipments
          /\ LET err == create_error(r.out, text)
                 hc == [Called(h, "create_order", r) EXCEPT
                           !.err = IF r.out = "ok" THEN "none" ELSE err]
                 h1 == IF order_created(r.out)
                       THEN [hc EXCEPT !.pc = "couriers", !.sid = carrier.shipments + 1]
                       ELSE Finished(hc, create_failed(bot, h.op, err))
             IN  /\ SetToken(r.T)
                 /\ h' = h1
                 /\ carrier' = IF r.out = "ok"
                               THEN [carrier EXCEPT !.orders[h.phone] = now,
                                                    !.shipments = @ + 1]
                               ELSE carrier
    /\ UNCHANGED <<auxVars, phase, now, advances, lastReq, pickup_map, pk, fb, sp, co, gt, rp, bot, user_data,
                   shipment_awb_map, pending, offered, reported, ledger,
                   pickup_scheduled, order_count>>

\* the tuple create_shipment_with_fallback returned reaches the handler
\* (control_bot.py: the awb assign_awb returned): it gives up or goes on
AfterAssign(hc, courier, awb) ==
    IF bot = "control"
    THEN IF awb_missing(awb) THEN Finished(hc, "awb_failed")
         ELSE [hc EXCEPT !.pc = "label", !.awb = awb]
    ELSE IF no_courier(courier, awb) THEN Finished(hc, "no_courier")
    ELSE IF hc.op = "dup_yes" THEN Finished([hc EXCEPT !.awb = awb], "created")
    ELSE [hc EXCEPT !.pc = "label", !.awb = awb]

\* what a handler that got past the check does before the label: bot.py:729 and
\* bot_enhanced.py:1002 write the map, control_bot.py:393 saves the order (add_order
\* takes the next order number) and reports, the dup_yes branch takes the next order
\* number (bot.py:866-875) and reports
AfterAssignEffects(h1) ==
    /\ ledger' = IF bot = "control" /\ h1.pc = "label"
                 THEN ledger \cup {<<h1.sid, h1.awb>>} ELSE ledger
    /\ reported' = IF (bot = "control" /\ h1.pc = "label")
                      \/ (h1.op = "dup_yes" /\ h1.reply = "created")
                   THEN reported \cup {<<h1.sid, h1.awb>>} ELSE reported
    /\ order_count' = IF (bot = "control" /\ h1.pc = "label")
                         \/ (h1.op = "dup_yes" /\ h1.reply = "created")
                      THEN order_count + 1 ELSE order_count

\* get_available_couriers(...) and what follows from its answer
StepCouriers ==
    /\ h.pc = "couriers"
    /\ \E r \in CallOutcomes(bot, "get_available_couriers", CurT, now),
          body \in QuoteBodies :
          LET args == IF h.op = "dup_yes" THEN dup_yes_args(h.payload)
                      ELSE IF bot = "control" THEN control_args(h.order, h.payload)
                      ELSE create_args(h.order, h.pickup)
              hc == [Called(h, "get_available_couriers", r) EXCEPT !.args = args]
              couriers == get_available_couriers(r.out, body)
              cands == IF bot = "control" THEN couriers
                       ELSE couriers_sorted(couriers, {})
              first == IF couriers = <<>> THEN 1
                       ELSE IF bot = "control" THEN best_courier(couriers)
                       ELSE next_with_id(cands, 1)
              h1 == IF bot = "control" /\ couriers = <<>>
                    THEN Finished(hc, "no_courier")
                    ELSE IF first > Len(cands)
                    THEN AfterAssign(hc, NoCourier, NoAwb)
                    ELSE [hc EXCEPT !.pc = "assign", !.cands = cands, !.idx = first]
          IN  /\ SetToken(r.T)
              /\ h' = h1
              /\ shipment_awb_map' =
                    IF bot # "control" /\ h1.pc = "label"
                    THEN MapPut(shipment_awb_map, h1.sid, h1.awb)
                    ELSE shipment_awb_map
              /\ AfterAssignEffects(h1)
    /\ UNCHANGED <<auxVars, phase, now, advances, lastReq, pickup_map, pk, fb, sp, co, gt, rp, bot, user_data,
                   carrier, pending, offered, pickup_scheduled>>

\* assign_awb(shipment_id, courier_id) for the candidate at h.idx: inside the loop of
\* create_shipment_with_fallback, or the one call of control_bot.py
StepAssign ==
    /\ h.pc = "assign"
    /\ \E r \in CallOutcomes(bot, "assign_awb", CurT, now),
          a \in {NoAwb, carrier_awb(h.sid)} :
          LET hc == Called(h, "assign_awb", r)
              awb == IF r.out = "ok" THEN a ELSE NoAwb
              nxt == next_with_id(h.cands, h.idx + 1)
              accepted == bot # "control" /\ awb_ok(awb)
              h1 == IF bot = "control" THEN AfterAssign(hc, h.cands[h.idx], awb)
                    ELSE IF accepted THEN AfterAssign(hc, h.cands[h.idx], awb)
                    ELSE IF nxt > Len(h.cands) THEN AfterAssign(hc, NoCourier, NoAwb)
                    ELSE [hc EXCEPT !.idx = nxt]
              map1 == IF accepted THEN MapPut(shipment_awb_map, h.sid, awb)
                      ELSE shipment_awb_map
          IN  /\ SetToken(r.T)
              /\ h' = h1
              /\ carrier' = IF awb # NoAwb
                            THEN [carrier EXCEPT !.issued = @ \cup {<<h.sid, awb>>}]
                            ELSE carrier
              /\ shipment_awb_map' =
                    IF bot # "control" /\ h1.pc = "label"
                    THEN MapPut(map1, h1.sid, h1.awb) ELSE map1
              /\ AfterAssignEffects(h1)
    /\ UNCHANGED <<auxVars, phase, now, advances, lastReq, pickup_map, pk, fb, sp, co, gt, rp, bot, user_data,
                   pending, offered, pickup_scheduled>>

\* a handler that puts the buttons up whatever generate_label returned
schedule_offer_Always(label_url, fetch) == TRUE

\* bot.py:756-782, bot_enhanced.py:1060-1072  if label_url: the PDF is fetched and the
\* schedule_yes / schedule_no buttons go up, unless fetching it raised (line 784
\* catches that after the report)
schedule_offer(label_url, fetch) == label_url /\ fetch = "ok"

\* generate_label(shipment_id), the next order number (bot.py:735-744), then the
\* report to the operator (bot_enhanced.py saves the order first) and, with a label,
\* the offer to schedule a pickup
StepLabel ==
    /\ h.pc = "label"
    /\ \E r \in CallOutcomes(bot, "generate_label", CurT, now), url \in BOOLEAN,
          fetch \in {"ok", "raised"} :
          LET label_url == r.out = "ok" /\ url
              h1 == Finished([Called(h, "generate_label", r) EXCEPT
                                 !.label = IF label_url THEN "url" ELSE "null"],
                             "created")
          IN  /\ SetToken(r.T)
              /\ h' = h1
              /\ ledger' = IF bot = "enhanced" THEN ledger \cup {<<h.sid, h.awb>>}
                           ELSE ledger
              /\ reported' = reported \cup {<<h.sid, h.awb>>}
              /\ order_count' = IF bot # "control" THEN order_count + 1 ELSE order_count
              /\ offered' = IF bot # "control" /\ schedule_offer(label_url, fetch)
                            THEN offered \cup {h.sid}
                            ELSE offered
    /\ UNCHANGED <<auxVars, phase, now, advances, lastReq, pickup_map, pk, fb, sp, co, gt, rp, bot, user_data,
                   shipment_awb_map, carrier, pending, pickup_scheduled>>

\* handle_callback, dup_yes_<payload>: the order is created after all
StartDupYes ==
    /\ phase = "running"
    /\ Idle
    /\ \E p \in pending :
          h' = [NoHandler EXCEPT !.op = "dup_yes", !.phone = p.payload.billing_phone,
                                 !.payload = p.payload, !.want = p.want,
                                 !.pc = "create",
                                 !.dup = RecentOrder(p.payload.billing_phone)]
    /\ UNCHANGED <<auxVars, gwVars, pickup_map, pk, fb, sp, co, gt, rp, bot, user_data, shipment_awb_map,
                   carrier, pending, offered, reported, ledger,
                   pickup_scheduled, order_count>>

\* handle_callback, dup_no: nothing is sent
DupNo ==
    /\ phase = "running"
    /\ Idle
    /\ pending # {}
    /\ h' = Finished([NoHandler EXCEPT !.op = "dup_no"], "cancelled")
    /\ UNCHANGED <<auxVars, gwVars, pickup_map, pk, fb, sp, co, gt, rp, bot, user_data, shipment_awb_map,
                   carrier, pending, offered, reported, ledger,
                   pickup_scheduled, order_count>>

\* the bodies the pickup endpoint answers with here: scheduled, and scheduled before
ScheduleBodies ==
    { [json |-> TRUE, flag |-> FALSE, status |-> StatusScheduled, response |-> "absent",
       nested |-> 0, generated |-> FALSE],
      [json |-> TRUE, flag |-> FALSE, status |-> 2, response |-> "dict",
       nested |-> StatusAlready, generated |-> FALSE] }

\* the shape in which a ledger record holds its shipment_id: resp.get("shipment_id")
\* as the carrier's JSON gave it, a number or a string
IdKinds == {"int", "str"}

\* a callback that marks the record whatever schedule_pickup returned
mark_scheduled_Always(ok, kind, sid, recs) == \E e \in recs : e[1] = sid

\* bot_enhanced.py:1272-1280  if ok and phone: the first record of the phone whose
\* shipment_id equals the text cut out of the callback data is marked.  The text is a
\* str, so a shipment_id held as a number never equals it
mark_scheduled(ok, kind, sid, recs) ==
    /\ ok
    /\ kind = "str"
    /\ \E e \in recs : e[1] = sid

\* handle_callback, schedule_yes_<shipment_id>: schedule_pickup([shipment_id]);
\* bot_enhanced.py then updates the ledger
ScheduleYes ==
    /\ phase = "running"
    /\ Idle
    /\ \E s \in offered, r \in CallOutcomes(bot, "schedule_pickup", CurT, now),
          body \in ScheduleBodies, kind \in IdKinds :
          LET ok == schedule_pickup(r.out, body).ok
          IN  /\ SetToken(r.T)
              /\ h' = Finished(Called([NoHandler EXCEPT !.op = "schedule", !.sid = s],
                                      "schedule_pickup", r),
                               IF ok THEN "scheduled" ELSE "not_scheduled")
              /\ pickup_scheduled' =
                    IF bot = "enhanced" /\ mark_scheduled(ok, kind, s, ledger)
                    THEN pickup_scheduled \cup {s}
                    ELSE pickup_scheduled
    /\ UNCHANGED <<auxVars, phase, now, advances, lastReq, pickup_map, pk, fb, sp, co, gt, rp, bot, user_data,
                   shipment_awb_map, carrier, pending, offered, reported, ledger,
                   order_count>>

\* the handler returns.  bot.py:787, bot_enhanced.py:1078: the create-shipment handler
\* leaves through  finally: awaiting_shipment = False
Finish ==
    /\ h.pc = "done"
    /\ h' = NoHandler
    /\ user_data' = IF h.op = "create" /\ bot # "control"
                    THEN [user_data EXCEPT !.awaiting_shipment = FALSE]
                    ELSE user_data
    /\ UNCHANGED <<auxVars, gwVars, pickup_map, pk, fb, sp, co, gt, rp, bot, shipment_awb_map, carrier,
                   pending, offered, reported, ledger,
                   pickup_scheduled, order_count>>

Next ==
    \/ Main
    \/ Advance
    \/ PressCreateShipment
    \/ StartCreate
    \/ StepQuote
    \/ StepDup
    \/ StepCreate
    \/ StepCouriers
    \/ StepAssign
    \/ StepLabel
    \/ StartDupYes
    \/ DupNo
    \/ ScheduleYes
    \/ Finish

Spec == InitBots /\ [][Next]_vars

----------------------------------------------------------------------------
(* Claims about the pickup resolver (SpecPickup) *)

\* C10: normalize_pickup_obj returns some location of the pickup map whenever the map
\* is not empty, whatever the label (absent, empty, normalizing to "", matching no
\* key), and returns None exactly when the map is empty.
C10_PickupFallback ==
    pk.done =>
        /\ (pickup_map # <<>> => pk.res \in 1..Len(pickup_map))
        /\ (pk.res = 0 <=> pickup_map = <<>>)

\* a label that matches none of two keys still got the first location
C10_Witness ==
    /\ pk.done
    /\ pk.parsed = [given |-> TRUE, text |-> <<"c">>]
    /\ Len(pickup_map) = 2
    /\ \A i \in 1..2 : ~pickup_match(norm(pk.parsed.text), norm(pickup_map[i]))
    /\ pk.res = 1

----------------------------------------------------------------------------
(* Claims about the fallback engine (SpecFallback) *)

Permuted(body, p) == [i \in 1..Len(body) |-> body[p[i]]]

SameForAllOrders ==
    \A p \in Permutations(1..Len(fb.body)) :
        LET r == create_shipment_with_fallback(fb.quote, Permuted(fb.body, p),
                                               fb.pj, fb.awbOf)
        IN  r.tried = fb.res.tried /\ r.courier = fb.res.courier

\* C6 as claimed: for every permutation of the candidate list the engine attempts the
\* candidates in the same order and returns the same courier, ties in the sort key
\* included.
C6_Original == fb.done => SameForAllOrders

\* candidates that share a sort key are one and the same record
KeysTellApart ==
    \A i, j \in 1..Len(fb.body) :
        priority_key(fb.body[i], fb.pj) = priority_key(fb.body[j], fb.pj)
            => fb.body[i] = fb.body[j]

\* C6 as amended: for every permutation of the candidate list the engine attempts the
\* candidates in the same order and returns the same courier, provided no two
\* different candidates have the same (tier, mode preference, rate) sort key.
C6_Deterministic == fb.done /\ KeysTellApart => SameForAllOrders

\* two candidates in the wrong order, both attempted, the second one chosen
C6_Witness ==
    /\ fb.done
    /\ KeysTellApart
    /\ Len(fb.body) = 2
    /\ fb.quote = "ok"
    /\ couriers_sorted(fb.body, fb.pj) # fb.body
    /\ Len(fb.res.tried) = 2
    /\ fb.res.courier = fb.body[1]

FbSorted == couriers_sorted(get_available_couriers(fb.quote, fb.body), fb.pj)

FbAccepting ==
    { i \in 1..Len(FbSorted) : courier_id(FbSorted[i]) # NoId
                                /\ fb.awbOf[courier_id(FbSorted[i])] # NoAwb }

\* C7: the courier returned is the first candidate in sorted order, among those with
\* an identifier, whose assign_awb returns a tracking number, and assign_awb is called
\* for no candidate behind it, cheaper or not.
C7_FirstSuccess ==
    fb.done =>
        IF FbAccepting = {}
        THEN fb.res.courier = NoCourier /\ fb.res.awb = NoAwb
        ELSE LET i == CHOOSE x \in FbAccepting : \A y \in FbAccepting : x <= y
             IN  /\ fb.res.courier = FbSorted[i]
                 /\ fb.res.awb = fb.awbOf[courier_id(FbSorted[i])]
                 /\ fb.res.tried = ids_between(FbSorted, 1, i)

\* the first candidate accepted although the second, cheaper one would have too
C7_Witness ==
    /\ fb.done
    /\ Len(FbSorted) = 2
    /\ FbAccepting = {1, 2}
    /\ courier_id(FbSorted[1]) # courier_id(FbSorted[2])
    /\ rate_key(FbSorted[2]) < rate_key(FbSorted[1])
    /\ fb.res.courier = FbSorted[1]
    /\ Len(fb.res.tried) = 1

\* C8: when the quote yields no candidate, because the list is empty or because the
\* quote call failed, the engine returns (None, None, None) and calls assign_awb for
\* nobody.
C8_NoCandidates ==
    fb.done /\ (fb.quote # "ok" \/ fb.body = <<>>)
        => fb.res = FbResult(NoCourier, NoAwb, NoRate, <<>>)

\* a failed quote whose body names a candidate that would have accepted
C8_Witness ==
    /\ fb.done
    /\ fb.quote = "fail"
    /\ \E i \in 1..Len(fb.body) :
          courier_id(fb.body[i]) # NoId /\ fb.awbOf[courier_id(fb.body[i])] # NoAwb
    /\ fb.res.courier = NoCourier
    /\ fb.res.tried = <<>>

----------------------------------------------------------------------------
(* Claims about the token manager and the request wrapper (SpecGateway) *)

ForcedGets == { i \in 1..Len(lastReq.gets) : lastReq.gets[i].force }

\* position of the first dispatch in the trace of the last request (0 if none)
FirstDispatch ==
    IF \E i \in 1..Len(lastReq.trace) : lastReq.trace[i] = "dispatch"
    THEN CHOOSE i \in 1..Len(lastReq.trace) :
            /\ lastReq.trace[i] = "dispatch"
            /\ \A j \in 1..(i - 1) : lastReq.trace[j] # "dispatch"
    ELSE 0

\* the positions behind the first dispatch where the trace shows ev
After401(ev) ==
    IF FirstDispatch = 0 THEN {}
    ELSE { i \in (FirstDispatch + 1)..Len(lastReq.trace) : lastReq.trace[i] = ev }

\* what the wrapper does about a 401: exactly one forced login behind the first
\* dispatch; if it succeeds, exactly one more dispatch, with the header carrying the
\* new token, and an exception if the answer is 401 again; if it fails, an exception
\* and no second dispatch.  Without a 401 there is one dispatch at most.
RetryDiscipline ==
    /\ Len(lastReq.disp) <= 2
    /\ (lastReq.first # "s401" => Len(lastReq.disp) <= 1 /\ After401("flogin") = {})
    /\ (lastReq.first = "s401" =>
            LET g == lastReq.gets[Len(lastReq.gets)]
            IN  /\ After401("flogin") = {FirstDispatch + 1}
                /\ g.force /\ g.logins = 1
                /\ (g.raised => Len(lastReq.disp) = 1 /\ lastReq.out = "raised")
                /\ (~g.raised =>
                        /\ Len(lastReq.disp) = 2
                        /\ After401("dispatch") = {FirstDispatch + 2}
                        /\ lastReq.disp[2].hdr = g.ret
                        /\ lastReq.disp[2].tok = g.ret
                        /\ lastReq.disp[2].valid
                        /\ (lastReq.second = "s401" => lastReq.out = "raised")))

\* C3 as claimed: after a first response 401 the wrapper performs exactly one forced
\* login and then dispatches the request exactly once more (login done, header
\* updated), raising if that answer is 401 too; no request is dispatched more than
\* twice and none performs more than one forced login.
C3_Original == RetryDiscipline /\ Cardinality(ForcedGets) <= 1

\* C3 as amended: the same, except that a request may perform two forced logins: one
\* inside ensure_valid_token, when its plain login fails, before the first dispatch,
\* and the one that answers the 401.  No more than one forced login follows the 401,
\* and the request is never dispatched more than twice.
C3_RetryOnce == RetryDiscipline /\ Cardinality(ForcedGets) <= 2

\* a request whose plain login failed, whose forced login then succeeded, and which
\* met a 401, refreshed once more and was answered on the second dispatch
C3_Witness ==
    /\ lastReq.first = "s401"
    /\ lastReq.second = "ok"
    /\ lastReq.out = "ok"
    /\ lastReq.trace = <<"login", "flogin", "dispatch", "flogin", "dispatch">>

\* C4: a get_token call without force_refresh made while a token is cached and
\* unexpired posts no login and returns the cached token; a call with force_refresh
\* posts exactly one login.  (So the plain calls of one validity window post no login
\* beyond the one that opened it.)
C4_TokenCache ==
    \A i \in 1..Len(lastReq.gets) :
        LET c == lastReq.gets[i]
        IN  /\ (~c.force /\ c.valid => c.logins = 0 /\ c.ret = c.cached /\ ~c.raised)
            /\ (c.force => c.logins = 1)
            /\ (~c.force /\ ~c.valid => c.logins = 1)

\* an hour into the token's life: the plain call answered from the cache, then the
\* forced call after a 401 posting its one login and returning another token
C4_Witness ==
    /\ now > 0
    /\ Len(lastReq.gets) = 2
    /\ ~lastReq.gets[1].force /\ lastReq.gets[1].valid /\ lastReq.gets[1].logins = 0
    /\ lastReq.gets[2].force /\ lastReq.gets[2].valid /\ lastReq.gets[2].logins = 1
    /\ lastReq.gets[2].ret # lastReq.gets[2].cached

----------------------------------------------------------------------------
(* Claims about the handlers of the three bots (Spec) *)

\* the positions in the handler's calls where it called helper op
CallsOf(op) == { i \in 1..Len(h.calls) : h.calls[i] = op }

\* C1: in every shipment-creation path of every bot, generate_label is called for a
\* shipment only after an assign_awb call for that shipment returned a tracking
\* number: a handler about to call it, or having called it, holds a tracking number
\* the carrier issued for its shipment, and an assign_awb call came first.
C1_LabelAfterAwb ==
    /\ h.pc = "label" =>
          h.sid # 0 /\ h.awb # NoAwb /\ <<h.sid, h.awb>> \in carrier.issued
    /\ \A i \in CallsOf("generate_label") :
          /\ h.awb # NoAwb
          /\ <<h.sid, h.awb>> \in carrier.issued
          /\ \E j \in CallsOf("assign_awb") : j < i
          /\ h.op = "create"

\* a label asked for after the first courier refused and the second one accepted
C1_Witness ==
    /\ h.pc = "done"
    /\ h.op = "create"
    /\ Cardinality(CallsOf("assign_awb")) = 2
    /\ CallsOf("generate_label") # {}
    /\ h.awb # NoAwb

\* C2 as claimed: a create-shipment submission for a phone whose last carrier order is
\* less than 7 days old stops at the confirmation gate; in no bot, and whatever the
\* duplicate lookup answers, does the submission itself get an order created.
C2_DuplicateGate == h.op = "create" /\ h.dup => h.sid = 0

\* C5 as claimed: whenever a helper of any bot sends a request to the carrier, a token
\* is cached and not expired.
C5_TokenValidAtDispatch == h.stale = {}

\* the shipments the carrier never issued a tracking number for
Unassigned == { s \in 1..carrier.shipments : \A e \in carrier.issued : e[1] # s }

----------------------------------------------------------------------------
(* Further claims about the pickup resolver (SpecPickup) *)

\* the locations whose normalized key equals the normalized label
ExactKeys(k) == { i \in 1..Len(pickup_map) : norm(pickup_map[i]) = k }

\* the locations whose normalized key contains the normalized label
KeysHoldingLabel(k) == { i \in 1..Len(pickup_map) : IsSubstr(k, norm(pickup_map[i])) }

\* C11 as claimed: the three match rules are applied in priority order across the whole
\* pickup map: a location whose key equals the normalized label is returned even when
\* an earlier key merely contains the label or is contained in it, and a key that
\* contains the label is preferred over one contained in the label.
C11_RulePriority ==
    pk.done /\ pk.parsed.given /\ pk.parsed.text # <<>> =>
        LET k == norm(pk.parsed.text)
        IN  /\ (ExactKeys(k) # {} => pk.res \in ExactKeys(k))
            /\ (ExactKeys(k) = {} /\ KeysHoldingLabel(k) # {}
                    => pk.res \in KeysHoldingLabel(k))

----------------------------------------------------------------------------
(* Pickup scheduling on its own: any way the request ends, any body *)

InitSchedule ==
    /\ InitToken
    /\ pickup_map = <<>>
    /\ pk = NoPk
    /\ fb = NoFb
    /\ co = NoCo
    /\ gt = NoGt
    /\ rp = NoRp
    /\ InitBot("basic")
    /\ sp \in [done : {FALSE}, out : {"ok", "fail", "raised"}, body : PickupResponses,
               res : {SpResult(FALSE, "none")}]

\* one call schedule_pickup([shipment_id])
RunSchedule ==
    /\ ~sp.done
    /\ sp' = [sp EXCEPT !.done = TRUE, !.res = schedule_pickup(sp.out, sp.body)]
    /\ UNCHANGED <<auxVars, gwVars, pickup_map, pk, fb, co, gt, rp, botVars>>

NextSchedule == RunSchedule

SpecSchedule == InitSchedule /\ [][NextSchedule]_vars

\* C12 as claimed: for every HTTP-200 response whose nested response.status is 3 and
\* whose top-level pickup_scheduled flag is not truthy, schedule_pickup returns success
\* with the "already scheduled" message, whatever else the response carries, a
\* top-level status of another value included.
C12_AlreadyScheduled ==
    /\ sp.done /\ sp.out = "ok" /\ sp.body.json
    /\ sp.body.response = "dict" /\ sp.body.nested = StatusAlready /\ ~sp.body.flag
    => sp.res = SpResult(TRUE, "already_scheduled")

----------------------------------------------------------------------------
(* Further claims about the handlers of the three bots (Spec) *)

\* C13 as claimed: after the operator confirms a duplicate, the flow goes on from
\* order creation as the unconfirmed path would have: the courier selection gets the
\* pickup postcode, delivery postcode, weight and COD flag of the original submission,
\* and a label is generated for the shipment that obtained a tracking number.
C13_ConfirmedLikeUnconfirmed ==
    h.op = "dup_yes" =>
        /\ (CallsOf("get_available_couriers") # {} => h.args = h.want)
        /\ (h.pc = "done" /\ h.awb # NoAwb => CallsOf("generate_label") # {})

\* C14 as claimed: a network failure of a carrier call made during shipment creation,
\* courier quoting and the shipping quote apart, never lets the handler go on as if
\* the call had succeeded: after a failed duplicate lookup or create_order the
\* handler stops without an order, a failed assign_awb yields no tracking number, a
\* failed generate_label no offer to schedule a pickup.
C14_TransportErrorStops ==
    /\ h.lost = "orders_lookup" => h.pc = "done"
    /\ h.lost = "create_order" => h.pc = "done" /\ h.sid = 0
    /\ h.lost = "assign_awb" => h.awb = NoAwb
    /\ h.lost = "generate_label" => h.sid \notin offered
    /\ h.lost = "schedule_pickup" => h.reply = "not_scheduled"

\* C15 as claimed: within one handler, once a login has failed and the login that
\* follows it has failed too, no further login request is posted.
C15_NoLoginAfterTwoFailures == h.lf < 3

----------------------------------------------------------------------------
(* Further claims about the request wrapper (SpecGateway) *)

\* the get_token calls of the last request that failed and were followed by another
RetriedLogins ==
    { i \in 1..Len(lastReq.gets) : lastReq.gets[i].raised /\ i < Len(lastReq.gets) }

\* a request whose first dispatch ends in a network error or in a status other than
\* 401 is dispatched once, and the error is raised or the response returned
DispatchedOnce ==
    lastReq.first \in {"neterr", "fail", "ok"} =>
        /\ Len(lastReq.disp) = 1
        /\ lastReq.out = IF lastReq.first = "neterr" THEN "raised" ELSE lastReq.first

\* C16 as claimed: the re-dispatch after a 401 is the only automatic re-attempt: a
\* failed login is never followed by another login in the same request, and a request
\* whose first dispatch ends in a network error or a status other than 401 is
\* dispatched exactly once and its failure raised or returned.
C16_Original == DispatchedOnce /\ RetriedLogins = {}

\* C16 as amended: there are two automatic re-attempts: the re-dispatch after a 401 and
\* the forced login with which ensure_valid_token answers the failure of its plain
\* login, before anything is dispatched.  A failed forced login is not re-attempted,
\* and a request whose first dispatch ends in a network error or a status other than
\* 401 is dispatched exactly once and its failure raised or returned.
C16_OnlyRetries ==
    /\ DispatchedOnce
    /\ RetriedLogins \subseteq {1}
    /\ RetriedLogins = {1} =>
          /\ ~lastReq.gets[1].force
          /\ lastReq.gets[2].force
          /\ SubSeq(lastReq.trace, 1, 2) = <<"login", "flogin">>

\* the plain login failed, the forced one succeeded, and the one dispatch was answered
\* with a status that is neither 200 nor 401
C16_Witness ==
    /\ lastReq.trace = <<"login", "flogin", "dispatch">>
    /\ lastReq.gets[1].raised
    /\ lastReq.first = "fail"
    /\ lastReq.out = "fail"


\* the handler ran out of couriers: every candidate refused, or there was none
Exhausted == h.pc = "done" /\ h.reply \in {"no_courier", "awb_failed"}

\* C17: the courier selection ends after at most one assign_awb call per candidate of
\* its one quote call; when the candidates are exhausted the shipment is left without
\* a tracking number, and no quote, assignment, label or pickup call is made for it
\* any more: later handlers work on shipments of their own.
C17_ExhaustedIsTerminal ==
    /\ Cardinality(CallsOf("get_available_couriers")) <= 1
    /\ h.pc = "assign" =>
          /\ h.idx <= Len(h.cands)
          /\ Cardinality(CallsOf("assign_awb")) <= h.idx - 1
    /\ Exhausted =>
          /\ h.awb = NoAwb
          /\ CallsOf("generate_label") = {}
          /\ h.sid \notin DOMAIN shipment_awb_map
          /\ h.sid \notin offered
    /\ h.op \in {"create", "dup_yes"} /\ h.sid # 0 => h.sid = carrier.shipments
    /\ h.op = "schedule" => h.sid \notin Unassigned
    /\ \A s \in Unassigned : s \notin offered

\* two candidates were quoted, both refused, and the handler gave up; the shipment
\* before it had ended the same way
C17_Witness ==
    /\ Exhausted
    /\ h.sid = 2
    /\ Cardinality(CallsOf("assign_awb")) = 2
    /\ Unassigned = {1, 2}

----------------------------------------------------------------------------
(* Further claims about the fallback engine (SpecFallback) *)

\* the candidates, in sorted order, that have an identifier and whose assign_awb
\* fails: it returns null or raises, which the engine treats alike
FbRefusing ==
    { i \in 1..Len(FbSorted) : courier_id(FbSorted[i]) # NoId
                                /\ fb.awbOf[courier_id(FbSorted[i])] = NoAwb }

\* C18: the engine returns (None, None, None) if and only if no candidate with an
\* identifier accepts the assignment; when a higher-ranked candidate's assign_awb fails
\* and a lower-ranked one's succeeds, the result is the first such lower-ranked
\* courier with its tracking number and its rate.
C18_FailureIffNoneAccepts ==
    fb.done =>
        /\ fb.res.courier = NoCourier <=> FbAccepting = {}
        /\ fb.res.courier = NoCourier => fb.res.awb = NoAwb /\ fb.res.rate = NoRate
        /\ FbAccepting # {} =>
              LET i == CHOOSE x \in FbAccepting : \A y \in FbAccepting : x <= y
              IN  /\ fb.res.courier = FbSorted[i]
                  /\ fb.res.awb = fb.awbOf[courier_id(FbSorted[i])]
                  /\ fb.res.awb # NoAwb
                  /\ fb.res.rate = FbSorted[i].rate

\* Delhivery, ranked first, refused; XYZ Express, ranked behind it, accepted and is
\* the result
C18_Witness ==
    /\ fb.done
    /\ fb.pj = {}
    /\ Len(FbSorted) = 2
    /\ FbSorted[1].courier_name = "Delhivery Surface"
    /\ FbRefusing = {1}
    /\ FbAccepting = {2}
    /\ fb.res.courier = FbSorted[2]
    /\ fb.res.courier.courier_name = "XYZ Express"
    /\ fb.res.awb # NoAwb


\* the tier, the mode preference and the order the claims state, written out for the
\* couriers of the model
StatedTier(c) ==
    CASE c.courier_name = "Bluedart" -> 1
      [] c.courier_name = "Delhivery Surface" -> 2
      [] c.courier_name = "DTDC" -> 3
      [] OTHER -> 99

StatedMode(c) ==
    IF mode_of(c) \in {"surface", "Surface"} THEN 0
    ELSE IF mode_of(c) \in {"air", "Air"} THEN 1
    ELSE 2

\* a may be attempted before b: lower tier, then lower mode preference, then lower
\* rate, a missing rate behind every quoted one
MayPrecede(ta, a, tb, b) ==
    \/ ta < tb
    \/ ta = tb /\ StatedMode(a) < StatedMode(b)
    \/ /\ ta = tb
       /\ StatedMode(a) = StatedMode(b)
       /\ b.rate = NoRate \/ (a.rate # NoRate /\ a.rate <= b.rate)

\* the identifiers the engine called assign_awb with are, in order, those at the head
\* of the sorted list
TriedInSortedOrder ==
    LET all == ids_between(FbSorted, 1, Len(FbSorted))
    IN  Len(fb.res.tried) <= Len(all) /\ fb.res.tried = SubSeq(all, 1, Len(fb.res.tried))

\* C19: the candidates are attempted in non-decreasing order of (tier, mode preference,
\* rate); without an override table the tier is 1 for bluedart, 2 for delhivery, 3 for
\* dtdc and 99 otherwise; the mode preference is 0 for surface, 1 for air and 2 for
\* anything else; a missing rate sorts behind every quoted rate of the same tier and
\* mode; so, without a table, an allow-listed carrier is tried before any other,
\* whatever the rates.
C19_AttemptOrder ==
    fb.done =>
        /\ TriedInSortedOrder
        /\ \A i, j \in 1..Len(FbSorted) :
              i < j =>
                 /\ MayPrecede(priority_key(FbSorted[i], fb.pj)[1], FbSorted[i],
                               priority_key(FbSorted[j], fb.pj)[1], FbSorted[j])
                 /\ fb.pj = {} =>
                       /\ MayPrecede(StatedTier(FbSorted[i]), FbSorted[i],
                                     StatedTier(FbSorted[j]), FbSorted[j])
                       /\ ~(StatedTier(FbSorted[i]) = 99 /\ StatedTier(FbSorted[j]) < 99)

\* Ekart without a rate came first in the quote, XYZ Express by air at 120 second: XYZ
\* was tried first and refused, then Ekart
C19_Witness ==
    /\ fb.done
    /\ fb.pj = {}
    /\ fb.quote = "ok"
    /\ Len(fb.body) = 2
    /\ fb.body[1].rate = NoRate /\ fb.body[2].rate # NoRate
    /\ StatedTier(fb.body[1]) = StatedTier(fb.body[2])
    /\ StatedMode(fb.body[1]) = StatedMode(fb.body[2])
    /\ fb.res.tried = <<courier_id(fb.body[2]), courier_id(fb.body[1])>>


\* str.title() of the modes of the model, as the claims state the key
StatedTitle(m) == IF m \in {"air", "Air"} THEN "Air"
                  ELSE IF m \in {"surface", "Surface"} THEN "Surface" ELSE m

\* the integer entries the table has under the candidate's "<name> <Mode>" key
IntEntries(c) ==
    { x \in fb.pj : /\ x.name = c.courier_name
                    /\ x.mode = StatedTitle(mode_of(c))
                    /\ x.kind = "int" }

\* C20 as claimed: a candidate whose "<carrier name> <title-cased mode>" key the
\* override table maps to an integer has that integer for its tier; every other
\* candidate, and every candidate when the table is absent, unreadable or empty, has
\* the tier of the fixed allow-list policy.
C20_OverrideTiers ==
    fb.done /\ fb.quote = "ok" =>
        \A i \in 1..Len(fb.body) :
            LET c == fb.body[i]
                tier == priority_key(c, fb.pj)[1]
            IN  IF IntEntries(c) # {}
                THEN \E x \in IntEntries(c) : tier = x.val
                ELSE tier = StatedTier(c)

----------------------------------------------------------------------------
(* Claims about the pickup offer and the pickup callback (Spec) *)

\* C21: the buttons to schedule a pickup go up only in a step in which generate_label
\* returned a label URL, and then for the shipment of that handler alone; when it
\* returned None the shipment is reported as created all the same and no button goes up
C21_OfferNeedsLabel ==
    [][ /\ offered' # offered =>
              /\ h.pc = "label" /\ h'.label = "url"
              /\ offered' = offered \cup {h.sid}
        /\ h.pc = "label" /\ h'.label = "null" =>
              /\ h'.reply = "created"
              /\ <<h.sid, h.awb>> \in reported'
              /\ offered' = offered ]_vars

\* the first shipment got its label and its buttons, the second one was created and
\* reported without a label and has no buttons
C21_Witness ==
    /\ h.pc = "done" /\ h.op = "create" /\ h.label = "null" /\ h.reply = "created"
    /\ h.sid = 2
    /\ offered = {1}
    /\ \E a \in AWBs : <<2, a>> \in reported

\* C22: schedule_pickup is called by the schedule_yes callback alone, never by a handler
\* that creates a shipment, and a ledger record gets pickup_scheduled = True only in
\* the step of a schedule_yes callback whose schedule_pickup call returned success for
\* the shipment of that record
C22_ScheduleOnlyOnRequest ==
    /\ [](h.op # "schedule" => CallsOf("schedule_pickup") = {})
    /\ [][ pickup_scheduled' # pickup_scheduled =>
              /\ Idle /\ h'.op = "schedule" /\ h'.sid \in offered
              /\ h'.calls = <<"schedule_pickup">>
              /\ h'.reply = "scheduled"
              /\ pickup_scheduled' = pickup_scheduled \cup {h'.sid}
              /\ \E e \in ledger : e[1] = h'.sid ]_vars

\* the operator pressed Yes for a shipment of the ledger, the pickup was scheduled and
\* the record marked; before that the shipment had been created without any
\* schedule_pickup call
C22_Witness ==
    /\ h.pc = "done" /\ h.op = "schedule" /\ h.reply = "scheduled"
    /\ h.sid \in pickup_scheduled
    /\ \E e \in ledger : e[1] = h.sid

----------------------------------------------------------------------------
(* create_order on its own (SpecCreate) *)

\* "status_code" is missing from the body
NoCode == 0 - 1

\* the statuses POST /orders/create/adhoc is answered with here (a 401 never reaches
\* create_order: the wrapper retries it or raises)
CreateStatuses == {200, 201, 400, 404, 500}

\* the bodies it is answered with: kind is what r.json() makes of the body ("empty"
\* and "malformed" make it raise, "null" gives None, "emptydict" {}, "emptylist" [],
\* "list" a non-empty array, "dict" a non-empty object), code the "status_code" field
\* of an object
CreateBodies ==
    [kind : {"empty", "malformed", "null", "emptydict", "emptylist", "list"},
     code : {NoCode}]
    \cup [kind : {"dict"}, code : {NoCode, 0, 1, 200, 400}]

\* the pair create_order returns: stub is "None" or the kind of the parsed body that
\* is handed back, err is "None", "text" (r.text) or "exception" (str(e))
CoResult(stub, err) == [stub |-> stub, err |-> err]

\* requests.Response.__bool__: the status is below 400
response_ok(status) == status < 400

\* bot.py:344  resp_json = r.json() if r else None
resp_json(status, body) ==
    IF response_ok(status) /\ body.kind # "null" THEN body.kind ELSE "None"

\* create_order(payload): out is "raised" when shiprocket_request raised, else
\* "answered" with status and body
create_order(out, status, body) ==
    IF out = "raised" THEN CoResult("None", "exception")
    ELSE IF response_ok(status) /\ body.kind \in {"empty", "malformed"}
    THEN CoResult("None", "exception")
    ELSE IF status # 200 THEN CoResult("None", "text")
    ELSE IF resp_json(status, body) = "list" THEN CoResult("None", "exception")
    ELSE IF resp_json(status, body) = "dict" /\ body.code \notin {1, 200}
    THEN CoResult("None", "text")
    ELSE CoResult(resp_json(status, body), "None")

InitCreate ==
    /\ InitToken
    /\ pickup_map = <<>>
    /\ pk = NoPk
    /\ fb = NoFb
    /\ sp = NoSp
    /\ gt = NoGt
    /\ rp = NoRp
    /\ InitBot("basic")
    /\ \/ co = [done |-> FALSE, out |-> "raised", status |-> 0,
                body |-> [kind |-> "empty", code |-> NoCode]]
       \/ co \in [done : {FALSE}, out : {"answered"}, status : CreateStatuses,
                  body : CreateBodies]

RunCreate ==
    /\ ~co.done
    /\ co' = [done |-> TRUE, out |-> co.out, status |-> co.status, body |-> co.body,
              res |-> create_order(co.out, co.status, co.body)]
    /\ UNCHANGED <<auxVars, gwVars, pickup_map, pk, fb, sp, gt, rp, botVars>>

NextCreate == RunCreate

SpecCreate == InitCreate /\ [][NextCreate]_vars

\* the response is a success: status 200 and an object whose status_code is 1 or 200
CreatedOk ==
    /\ co.out = "answered" /\ co.status = 200
    /\ co.body.kind = "dict" /\ co.body.code \in {1, 200}

\* C23: create_order returns the parsed object and no error when the response is a
\* success, and no shipment with an error text in every other case: it never returns
\* a falsy shipment together with a null error
C23_TwoShapes ==
    co.done =>
        IF CreatedOk THEN co.res = CoResult("dict", "None")
        ELSE co.res.stub = "None" /\ co.res.err # "None"

----------------------------------------------------------------------------
(* Claims about the outcomes of the create-shipment handlers (Spec) *)

\* C24: in bot.py and bot_enhanced.py, on the create-shipment path and on the dup_yes
\* path alike, a create_order failure whose error text holds "insufficient balance" in
\* any case is answered with the insufficient-balance message, and any other failure
\* with the error text
C24_BalanceCategorised ==
    bot # "control" /\ h.pc = "done" /\ h.err # "none" =>
        h.reply = IF LowerHas(h.err, "insufficient balance")
                  THEN "insufficient_balance"
                  ELSE "carrier_rejected"

\* C25: in each of the three bots, a create-shipment handler whose submission the
\* pickup resolver has no location for ends with the no-pickup reply and calls no
\* helper of the carrier
C25_NoPickupNoCall ==
    h.op = "create" /\ h.nopickup =>
        h.pc = "done" /\ h.reply = "no_pickup" /\ h.calls = <<>>

----------------------------------------------------------------------------
(* get_token run by several callers at once, statement by statement (SpecRace) *)

\* the number of get_token executions in flight
MaxExecs == 2

Execs == 1..MaxExecs

\* the cache when the executions start: never filled, filled and valid, filled and
\* expired; issued counts the tokens the login endpoint has given out so far
CacheStates ==
    { [tok |-> NoToken, exp |-> 0, t |-> 0, issued |-> 0],
      [tok |-> 1, exp |-> TokenTTLHours, t |-> 1, issued |-> 1],
      [tok |-> 1, exp |-> TokenTTLHours, t |-> TokenTTLHours + 7, issued |-> 1] }

\* a header update that sends the token this execution got from its own login
header_token_OwnLogin(own, cached) == own

\* bot.py:146-148  session.headers.update({"Authorization": f"Bearer {auth_token}"}):
\* the token written is the global auth_token as it is when the statement runs,
\* not the data["token"] of this execution
header_token(own, cached) == cached

\* execution i moves to pc holding tok
GtStep(i, pc, tok) == [gt EXCEPT !.ex[i].pc = pc, !.ex[i].tok = tok]

InitRace ==
    /\ phase = "running"
    /\ advances = 0
    /\ lastReq = NoReq
    /\ pickup_map = <<>>
    /\ pk = NoPk
    /\ fb = NoFb
    /\ sp = NoSp
    /\ co = NoCo
    /\ rp = NoRp
    /\ InitBot("basic")
    /\ \E c \in CacheStates, force \in [Execs -> BOOLEAN] :
          /\ now = c.t
          /\ auth_token = c.tok
          /\ token_expiry = c.exp
          /\ session_headers = c.tok
          /\ gt = [ex |-> [i \in Execs |->
                              [pc |-> "read", force |-> force[i], tok |-> NoToken]],
                   issued |-> c.issued, failed |-> FALSE]

\* bot.py:128-129  the cache test: a valid token is returned, else the login follows
ReadCache ==
    /\ \E i \in Execs :
          /\ gt.ex[i].pc = "read"
          /\ gt' = IF ~gt.ex[i].force /\ TokenValid(CurT, now)
                   THEN GtStep(i, "done", auth_token)
                   ELSE GtStep(i, "login", NoToken)
    /\ UNCHANGED <<auxVars, gwVars, pickup_map, pk, fb, sp, co, rp, botVars>>

\* bot.py:133-141  the login request: a body with a token the endpoint has not given
\* out before, or a failure, which line 154 raises
Login ==
    /\ \E i \in Execs, ok \in BOOLEAN :
          /\ gt.ex[i].pc = "login"
          /\ gt' = IF ok
                   THEN [GtStep(i, "wtok", gt.issued + 1) EXCEPT !.issued = @ + 1]
                   ELSE [GtStep(i, "done", NoToken) EXCEPT !.failed = TRUE]
    /\ UNCHANGED <<auxVars, gwVars, pickup_map, pk, fb, sp, co, rp, botVars>>

\* bot.py:143  auth_token = data["token"]
WriteToken ==
    /\ \E i \in Execs :
          /\ gt.ex[i].pc = "wtok"
          /\ auth_token' = gt.ex[i].tok
          /\ gt' = GtStep(i, "wexp", gt.ex[i].tok)
    /\ UNCHANGED <<auxVars, phase, now, advances, token_expiry, session_headers, lastReq,
                   pickup_map, pk, fb, sp, co, rp, botVars>>

\* bot.py:144  token_expiry = time.time() + (23 * 3600)
WriteExpiry ==
    /\ \E i \in Execs :
          /\ gt.ex[i].pc = "wexp"
          /\ token_expiry' = now + TokenTTLHours
          /\ gt' = GtStep(i, "hdr", gt.ex[i].tok)
    /\ UNCHANGED <<auxVars, phase, now, advances, auth_token, session_headers, lastReq,
                   pickup_map, pk, fb, sp, co, rp, botVars>>

\* bot.py:146-151  the header update, then return auth_token
UpdateHeader ==
    /\ \E i \in Execs :
          /\ gt.ex[i].pc = "hdr"
          /\ session_headers' = header_token(gt.ex[i].tok, auth_token)
          /\ gt' = GtStep(i, "done", auth_token)
    /\ UNCHANGED <<auxVars, phase, now, advances, auth_token, token_expiry, lastReq,
                   pickup_map, pk, fb, sp, co, rp, botVars>>

NextRace == ReadCache \/ Login \/ WriteToken \/ WriteExpiry \/ UpdateHeader

SpecRace == InitRace /\ [][NextRace]_vars

\* every execution has returned and no login failed
AllReturned == ~gt.failed /\ \A i \in Execs : gt.ex[i].pc = "done"

\* C26: however the statements of the get_token executions interleave, once all have
\* returned without a failed login the cached token is one the login endpoint issued,
\* token_expiry lies in the future and the Authorization header holds the cached token
C26_RaceConverges ==
    AllReturned =>
        /\ auth_token \in 1..gt.issued
        /\ now < token_expiry
        /\ session_headers = auth_token

\* both executions logged in and the token issued last lost the race: the cache and
\* the header hold the token issued before it
C26_Witness ==
    /\ AllReturned
    /\ gt.issued >= 2
    /\ auth_token = gt.issued - 1
    /\ session_headers = auth_token
    /\ \A i \in Execs : gt.ex[i].tok = auth_token

----------------------------------------------------------------------------
(* refresh_pickups on its own (SpecRefresh) *)

\* the length of the listings
MaxListing == 2

\* the elements a listing can hold: records with two names that differ in case only,
\* with another name and with no name, a record whose name is a number, and an
\* element that is no record
ListingEntries ==
    { Entry(n, p) : n \in { <<>>, <<"a">>, <<"A">>, <<"b">> }, p \in {"600001", "110001"} }
    \cup { NumberNamed("600001"), NotARecord }

Listings(n) == UNION { [1..k -> ListingEntries] : k \in 0..n }

\* the maps an earlier refresh can have left
OldMaps ==
    { pickup_dict(l, <<>>) :
        l \in { <<>>, << Entry(<<"a">>, "110001") >>,
                << Entry(<<"b">>, "600001"), Entry(<<"c">>, "600001") >> } }

InitRefresh ==
    /\ InitToken
    /\ pk = NoPk
    /\ fb = NoFb
    /\ sp = NoSp
    /\ co = NoCo
    /\ gt = NoGt
    /\ InitBot("basic")
    /\ \E out \in RefreshOutcomes, lst \in Listings(MaxListing), old \in OldMaps :
          /\ rp = [done |-> FALSE, out |-> out, lst |-> lst, old |-> old,
                   res |-> RpResult(FALSE, old)]
          /\ pickup_map = dict_keys(old)

RunRefresh ==
    /\ ~rp.done
    /\ rp' = [rp EXCEPT !.done = TRUE, !.res = refresh(rp.out, rp.lst, rp.old)]
    /\ pickup_map' = dict_keys(refresh(rp.out, rp.lst, rp.old).map)
    /\ UNCHANGED <<auxVars, gwVars, pk, fb, sp, co, gt, botVars>>

NextRefresh == RunRefresh

SpecRefresh == InitRefresh /\ [][NextRefresh]_vars

\* the records of the listing that have a name
Named == { i \in 1..Len(rp.lst) : rp.lst[i].name # <<>> }

\* the records the map holds
Held == { rp.res.map[i][2] : i \in 1..Len(rp.res.map) }

\* a failed refresh leaves the map as it was
FailureKeepsMap == ~rp.res.ok => rp.res.map = rp.old /\ pickup_map = dict_keys(rp.old)

\* C27 as stated: after a successful refresh the map holds exactly the records of the
\* latest listing that have a name, and after a failed one it is unchanged
C27_Original ==
    rp.done =>
        /\ rp.res.ok <=> rp.out = "ok" /\ ~listing_raises(rp.lst)
        /\ rp.res.ok => Held = { rp.lst[i] : i \in Named }
        /\ FailureKeepsMap

\* C27: after a successful refresh the map holds, for each lower-cased name of the
\* latest listing, the last record listed under it and nothing else, whatever the map
\* held before; after a failed one it is unchanged
C27_WholesaleByKey ==
    rp.done =>
        /\ rp.res.ok <=> rp.out = "ok" /\ ~listing_raises(rp.lst)
        /\ rp.res.ok =>
              /\ \A i \in 1..Len(rp.res.map) :
                    \E j \in Named :
                       /\ rp.res.map[i] = <<lower(rp.lst[j].name), rp.lst[j]>>
                       /\ \A k \in Named :
                             lower(rp.lst[k].name) = lower(rp.lst[j].name) => k <= j
              /\ \A j \in Named :
                    \E i \in 1..Len(rp.res.map) : rp.res.map[i][1] = lower(rp.lst[j].name)
              /\ \A i, k \in 1..Len(rp.res.map) :
                    rp.res.map[i][1] = rp.res.map[k][1] => i = k
              /\ pickup_map = dict_keys(rp.res.map)
        /\ FailureKeepsMap

\* a refresh over a map of two locations succeeded with a listing of two records
\* whose names differ in case only: the map holds the second one, and neither of the
\* old locations
C27_Witness ==
    /\ rp.done /\ rp.res.ok
    /\ Len(rp.old) = 2
    /\ Len(rp.lst) = 2 /\ Named = {1, 2}
    /\ rp.lst[1].name # rp.lst[2].name
    /\ rp.res.map = << <<lower(rp.lst[2].name), rp.lst[2]>> >>
    /\ \A i \in 1..Len(rp.old) : rp.old[i][1] \notin { pickup_map[k] : k \in 1..Len(pickup_map) }

\* the place of a helper in the order of the calls
CallRank(op) ==
    CASE op = "get_shipping_quote" -> 1
      [] op = "orders_lookup" -> 2
      [] op = "create_order" -> 3
      [] op = "get_available_couriers" -> 4
      [] op = "assign_awb" -> 5
      [] op = "generate_label" -> 6
      [] OTHER -> 7

\* the calls of the handler so far are in order, each helper but assign_awb at most once
CallsInOrder ==
    \A i, j \in 1..Len(h.calls) :
        i < j =>
            \/ CallRank(h.calls[i]) < CallRank(h.calls[j])
            \/ h.calls[i] = "assign_awb" /\ h.calls[j] = "assign_awb"

\* C28: a handler that creates a shipment calls the carrier in the order shipping
\* quote, duplicate lookup, create_order, courier quote, assign_awb (once or more),
\* generate_label; after a failed create_order it calls nothing more; after a failed
\* courier selection it asks for no label, takes no order number and saves no order
C28_CallOrder ==
    /\ [](/\ h.op \in {"create", "dup_yes"} => CallsInOrder
          /\ h.err # "none" =>
                h.pc = "done" /\ h.calls[Len(h.calls)] = "create_order"
          /\ Exhausted =>
                /\ CallsOf("generate_label") = {}
                /\ \A e \in ledger : e[1] # h.sid)
    /\ [][ order_count' # order_count =>
              /\ order_count' = order_count + 1
              /\ h'.reply \notin {"no_courier", "awb_failed"}
              /\ h'.awb # NoAwb ]_vars

\* bot.py went through all six helpers, assign_awb twice, and took an order number;
\* nothing of the kind had happened for the shipment before it, whose courier
\* selection failed
C28_Witness ==
    /\ h.pc = "done" /\ h.op = "create" /\ h.sid = 2
    /\ h.calls = <<"get_shipping_quote", "orders_lookup", "create_order",
                   "get_available_couriers", "assign_awb", "assign_awb",
                   "generate_label">>
    /\ order_count = 1
    /\ ledger = {}

----------------------------------------------------------------------------
(* Claims about candidates without an identifier (SpecFallback) *)

\* no candidate of the sorted list has an identifier
NoneHasId == \A j \in 1..Len(FbSorted) : courier_id(FbSorted[j]) = NoId

\* C29: assign_awb is called with identifiers of candidates only, in the order of the
\* sorted list, a candidate without any identifier field being passed over: the calls
\* are those for the candidates with an identifier up to the one returned, or for all
\* of them when the engine returns the failure tuple; when no candidate has an
\* identifier the engine returns the failure tuple without a single call
C29_SkipWithoutId ==
    fb.done /\ fb.quote = "ok" =>
        /\ \A k \in 1..Len(fb.res.tried) : fb.res.tried[k] # NoId
        /\ IF fb.res.courier = NoCourier
           THEN fb.res.tried = ids_between(FbSorted, 1, Len(FbSorted))
           ELSE \E j \in 1..Len(FbSorted) :
                   /\ FbSorted[j] = fb.res.courier
                   /\ courier_id(FbSorted[j]) # NoId
                   /\ fb.res.tried = ids_between(FbSorted, 1, j)
        /\ NoneHasId =>
              fb.res = FbResult(NoCourier, NoAwb, NoRate, <<>>)

\* the first candidate of the sorted list has no identifier, the second one has and
\* accepted: one call, for the second
C29_Witness ==
    /\ fb.done /\ fb.quote = "ok"
    /\ Len(FbSorted) = 2
    /\ courier_id(FbSorted[1]) = NoId
    /\ fb.res.courier = FbSorted[2]
    /\ fb.res.tried = <<courier_id(FbSorted[2])>>
    /\ fb.res.awb # NoAwb

----------------------------------------------------------------------------
(* Claims about the result of schedule_pickup (SpecSchedule) *)

\* the response is one schedule_pickup may take for a success: status 200 and a body
\* with a truthy pickup_scheduled or an effective status of 1 or 3
MaySucceed ==
    /\ sp.out = "ok" /\ sp.body.json
    /\ \/ sp.body.flag
       \/ pickup_status(sp.body) \in {StatusScheduled, StatusAlready}

\* C30: schedule_pickup returns success only for a status-200 response whose body has
\* a truthy pickup_scheduled or an effective status of 1 or 3; for every other
\* response it returns False with a message and does not raise: the error message for
\* a request that raised, the invalid-response message for a body that is not JSON,
\* the API-error message for another status, the already-generated message for a
\* status-200 body that says so
C30_SuccessOnlyOn200 ==
    sp.done =>
        /\ sp.res.ok => MaySucceed
        /\ sp.res.msg \in {"scheduled", "already_scheduled", "already_generated",
                           "not_scheduled", "api_error", "invalid_response", "error"}
        /\ sp.res.ok <=> sp.res.msg \in {"scheduled", "already_scheduled"}
        /\ sp.out = "raised" => sp.res = SpResult(FALSE, "error")
        /\ sp.out # "raised" /\ ~sp.body.json => sp.res = SpResult(FALSE, "invalid_response")
        /\ sp.out = "fail" /\ sp.body.json /\ sp.body.response # "other" =>
              sp.res = SpResult(FALSE, "api_error")
        /\ sp.out = "ok" /\ sp.body.json /\ sp.body.response # "other" /\ ~MaySucceed
           /\ sp.body.generated => sp.res = SpResult(FALSE, "already_generated")

\* a response with another status than 200 whose body carries pickup_scheduled and
\* status 1 was refused with the API-error message
C30_Witness ==
    /\ sp.done /\ sp.out = "fail" /\ sp.body.json
    /\ sp.body.flag /\ sp.body.status = StatusScheduled
    /\ sp.res = SpResult(FALSE, "api_error")

\* the elements of the listing that are records with a name
WellFormed == { i \in 1..Len(rp.lst) : rp.lst[i].kind = "record" /\ rp.lst[i].name # <<>> }

\* C31: a refresh answered with status 200 and a listing returns success and loads
\* every record of the listing that has a name, whatever else the listing holds: a
\* record without a name or with a name that is no string and an element that is no
\* record are passed over
C31_SkipsMalformed ==
    rp.done /\ rp.out = "ok" =>
        /\ rp.res.ok
        /\ \A i \in WellFormed :
              \E k \in 1..Len(rp.res.map) : rp.res.map[k][1] = lower(rp.lst[i].name)


\* ---------------------------------------------------------------------------
\* The order ledger (orders_manager.py) and the dialogues of the enhanced bot
\* that write to it: mark advance, convert to full COD, manual entry.
\* ---------------------------------------------------------------------------

MaxOrders == 2

LedgerPhones == {"P1", "P2"}

\* the number of dialogues the operator has open at once
MaxOpen == 1

\* the texts an operator sends: digits (a phone number, an amount) or a courier name
Texts == LedgerPhones \cup {"BlueDart"}

\* float(text) succeeds on digits
is_float(text) == text # "BlueDart"

\* an order of the ledger: shiprocket is the status of its Shiprocket shipment
\* ("none": the order has no shiprocket entry), shipment_id the id of that shipment
LedgerOrder(phone, created_at, sr) ==
    [phone |-> phone, created_at |-> created_at, shipment_id |-> created_at,
     shiprocket |-> sr, vendor_shipment |-> FALSE, advance_paid |-> FALSE]

\* save_order appends with created_at = now, so the list is in order of creation;
\* the bot saves an order with its Shiprocket shipment, status active
Ledgers(n) ==
    { [i \in 1..n |-> LedgerOrder(ph[i], i, "active")] : ph \in [1..n -> LedgerPhones] }

matching(orders, phone) == { i \in 1..Len(orders) : orders[i].phone = phone }

\* the position of the most recent order with the phone, 0 for None: the stable
\* sort on created_at, reversed, keeps the earlier of two equal entries first
find_order_by_phone(orders, phone) ==
    IF matching(orders, phone) = {} THEN 0
    ELSE CHOOSE i \in matching(orders, phone) :
            \A j \in matching(orders, phone) :
                \/ orders[i].created_at > orders[j].created_at
                \/ orders[i].created_at = orders[j].created_at /\ i <= j

\* the order the loop of update_order, convert_to_full_cod and add_manual_shipment
\* stops at: the first of the list with the phone, 0 when there is none
first_with_phone(orders, phone) ==
    IF matching(orders, phone) = {} THEN 0
    ELSE CHOOSE i \in matching(orders, phone) : \A j \in matching(orders, phone) : i <= j

update_order(orders, phone) ==
    IF first_with_phone(orders, phone) = 0 THEN orders
    ELSE [orders EXCEPT ![first_with_phone(orders, phone)].advance_paid = TRUE]

mark_advance_paid(orders, phone) == update_order(orders, phone)

add_manual_shipment(orders, phone) ==
    IF first_with_phone(orders, phone) = 0 THEN orders
    ELSE [orders EXCEPT
            ![first_with_phone(orders, phone)].shiprocket =
                IF @ # "none" THEN "cancelled" ELSE @,
            ![first_with_phone(orders, phone)].vendor_shipment = TRUE]

\* the answers of the carrier to a cancellation
CancelOutcomes == {"ok", "fail", "raised"}

cancel_shipment(out) == out = "ok"

\* the carrier calls create_full_cod_shipment dispatches: its body is `pass`
create_full_cod_shipment == {}

\* the last write to the ledger or carrier call of a dialogue
\* the orders a write for the phone changes: the one its loop stops at, which gets
\* the new fields and a new updated_at
written(orders, phone) ==
    IF first_with_phone(orders, phone) = 0 THEN {} ELSE {first_with_phone(orders, phone)}

\* the last write to the ledger or carrier call of a dialogue: the phone it was for,
\* the order find_order_by_phone gives for that phone, the orders it changed, the
\* carrier calls it dispatched, whether the operator was told it succeeded
NoLast ==
    [op |-> "none", phone |-> "", found |-> 0, touched |-> {}, calls |-> {}, ok |-> FALSE]
Last(op, phone, found, changed, calls, ok) ==
    [op |-> op, phone |-> phone, found |-> found, touched |-> changed, calls |-> calls,
     ok |-> ok]

InitLedger ==
    /\ InitToken
    /\ pickup_map = <<>>
    /\ pk = NoPk
    /\ fb = NoFb
    /\ sp = NoSp
    /\ co = NoCo
    /\ gt = NoGt
    /\ rp = NoRp
    /\ InitShop("enhanced")
    /\ conv = NoConv
    /\ db = NoDb
    /\ rb = NoRb
    /\ \E n \in 0..MaxOrders : \E l \in Ledgers(n) :
          om = [orders |-> l, flags |-> {}, advance_phone |-> "", convert_order |-> 0,
                manual_phone |-> "", manual_courier |-> "", asked |-> FALSE,
                answer |-> "", cancelled_ok |-> {}, last |-> NoLast]

LedgerRest == <<conv, db, rb, gwVars, pickup_map, pk, fb, sp, co, gt, rp, botVars>>

\* the awaiting flags in the order handle_message tests them
FlagOrder == << "awaiting_advance_phone", "awaiting_advance_amount",
                "awaiting_convert_phone", "awaiting_convert_cod_amount",
                "awaiting_manual_phone", "awaiting_manual_courier",
                "awaiting_manual_awb" >>

\* handle_message reaches the handler of a flag when no earlier flag is set
dispatched(flag) ==
    \E k \in 1..Len(FlagOrder) :
        /\ FlagOrder[k] = flag
        /\ flag \in om.flags
        /\ \A j \in 1..(k - 1) : FlagOrder[j] \notin om.flags

\* the dialogues that have a flag or a value in user_data
open_dialogues ==
    { d \in {"advance", "convert", "manual"} :
        \/ d = "advance" /\ \/ om.advance_phone # ""
                             \/ om.flags \cap {"awaiting_advance_phone",
                                                "awaiting_advance_amount"} # {}
        \/ d = "convert" /\ \/ om.convert_order # 0
                             \/ om.flags \cap {"awaiting_convert_phone",
                                                "awaiting_convert_cod_amount"} # {}
        \/ d = "manual" /\ \/ om.manual_phone # ""
                            \/ om.flags \cap {"awaiting_manual_phone",
                                               "awaiting_manual_courier",
                                               "awaiting_manual_awb"} # {} }

may_open(d) == d \in open_dialogues \/ Cardinality(open_dialogues) < MaxOpen

PressMarkAdvance ==
    /\ may_open("advance")
    /\ om' = [om EXCEPT !.flags = @ \cup {"awaiting_advance_phone"}]
    /\ UNCHANGED LedgerRest

PressConvertCOD ==
    /\ may_open("convert")
    /\ om' = [om EXCEPT !.flags = @ \cup {"awaiting_convert_phone"}]
    /\ UNCHANGED LedgerRest

PressManualEntry ==
    /\ may_open("manual")
    /\ om' = [om EXCEPT !.flags = @ \cup {"awaiting_manual_phone"}]
    /\ UNCHANGED LedgerRest

\* "Cancel" clears user_data
PressCancel ==
    /\ om' = [om EXCEPT !.flags = {}, !.advance_phone = "", !.convert_order = 0,
                        !.manual_phone = "", !.manual_courier = "", !.asked = FALSE,
                        !.answer = ""]
    /\ UNCHANGED LedgerRest

handle_advance_phone ==
    /\ dispatched("awaiting_advance_phone")
    /\ \E text \in Texts :
          om' = [om EXCEPT
                   !.flags = @ \ {"awaiting_advance_phone"},
                   !.advance_phone =
                       IF find_order_by_phone(om.orders, text) = 0 THEN @ ELSE text]
    /\ UNCHANGED LedgerRest

\* the buttons advance_500, advance_600, advance_700
advance_button ==
    /\ om.advance_phone # ""
    /\ om' = [om EXCEPT
                !.orders = mark_advance_paid(om.orders, om.advance_phone),
                !.advance_phone = "",
                !.last = Last("mark_advance_paid", om.advance_phone,
                              find_order_by_phone(om.orders, om.advance_phone),
                              written(om.orders, om.advance_phone),
                              {}, first_with_phone(om.orders, om.advance_phone) # 0)]
    /\ UNCHANGED LedgerRest

advance_custom ==
    /\ om.advance_phone # ""
    /\ om' = [om EXCEPT !.flags = @ \cup {"awaiting_advance_amount"}]
    /\ UNCHANGED LedgerRest

handle_advance_amount ==
    /\ dispatched("awaiting_advance_amount")
    /\ \E text \in Texts :
          om' = IF ~is_float(text) THEN om
                ELSE [om EXCEPT
                        !.orders = mark_advance_paid(om.orders, om.advance_phone),
                        !.flags = @ \ {"awaiting_advance_amount"},
                        !.advance_phone = "",
                        !.last = Last("mark_advance_paid", om.advance_phone,
                                      find_order_by_phone(om.orders, om.advance_phone),
                                      written(om.orders, om.advance_phone),
                                      {},
                                      first_with_phone(om.orders, om.advance_phone) # 0)]
    /\ UNCHANGED LedgerRest

handle_convert_phone ==
    /\ dispatched("awaiting_convert_phone")
    /\ \E text \in Texts :
          om' = [om EXCEPT
                   !.flags = @ \ {"awaiting_convert_phone"},
                   !.convert_order =
                       IF find_order_by_phone(om.orders, text) = 0 THEN @
                       ELSE IF om.orders[find_order_by_phone(om.orders, text)].shiprocket
                               = "none" THEN @
                       ELSE find_order_by_phone(om.orders, text)]
    /\ UNCHANGED LedgerRest

convert_confirm ==
    /\ om.convert_order # 0
    /\ \E out \in CancelOutcomes :
          om' = [om EXCEPT
                   !.flags = IF cancel_shipment(out)
                             THEN @ \cup {"awaiting_convert_cod_amount"} ELSE @,
                   !.convert_order = IF cancel_shipment(out) THEN @ ELSE 0,
                   !.cancelled_ok =
                       IF cancel_shipment(out)
                       THEN @ \cup {om.orders[om.convert_order].shipment_id} ELSE @,
                   !.last = Last("cancel_shipment",
                                 om.orders[om.convert_order].phone, om.convert_order,
                                 {}, {"cancel"}, cancel_shipment(out))]
    /\ UNCHANGED LedgerRest

convert_cancel ==
    /\ om.convert_order # 0
    /\ om' = [om EXCEPT !.convert_order = 0]
    /\ UNCHANGED LedgerRest

\* a text that is no amount is asked for again; with no order in user_data the
\* handler raises before it changes anything
handle_convert_cod_amount ==
    /\ dispatched("awaiting_convert_cod_amount")
    /\ \E text \in Texts :
          om' = IF ~is_float(text) \/ om.convert_order = 0 THEN om
                ELSE [om EXCEPT
                        !.flags = @ \ {"awaiting_convert_cod_amount"},
                        !.convert_order = 0,
                        !.last = Last("convert_cod_amount",
                                      om.orders[om.convert_order].phone,
                                      om.convert_order, {},
                                      create_full_cod_shipment, TRUE)]
    /\ UNCHANGED LedgerRest

handle_manual_phone ==
    /\ dispatched("awaiting_manual_phone")
    /\ \E text \in Texts :
          om' = IF find_order_by_phone(om.orders, text) = 0
                THEN [om EXCEPT !.flags = @ \ {"awaiting_manual_phone"}]
                ELSE [om EXCEPT
                        !.flags = (@ \ {"awaiting_manual_phone"})
                                     \cup {"awaiting_manual_courier"},
                        !.manual_phone = text,
                        !.answer = "",
                        !.asked = om.orders[find_order_by_phone(om.orders, text)]
                                     .shiprocket = "active"]
    /\ UNCHANGED LedgerRest

\* "Yes, Cancel": the answer of the carrier is not looked at
manual_cancel_yes ==
    /\ om.asked
    /\ \E out \in CancelOutcomes :
          om' = [om EXCEPT
                   !.flags = @ \cup {"awaiting_manual_courier"},
                   !.answer = "yes",
                   !.cancelled_ok =
                       IF /\ find_order_by_phone(om.orders, om.manual_phone) # 0
                          /\ om.orders[find_order_by_phone(om.orders, om.manual_phone)]
                                .shiprocket # "none"
                          /\ cancel_shipment(out)
                       THEN @ \cup {om.orders[find_order_by_phone(om.orders,
                                                  om.manual_phone)].shipment_id}
                       ELSE @]
    /\ UNCHANGED LedgerRest

\* "No, Keep Both"
manual_cancel_no ==
    /\ om.asked
    /\ om' = [om EXCEPT
                !.flags = @ \cup {"awaiting_manual_courier"},
                !.answer = "no"]
    /\ UNCHANGED LedgerRest

handle_manual_courier ==
    /\ dispatched("awaiting_manual_courier")
    /\ \E text \in Texts :
          om' = [om EXCEPT
                   !.flags = (@ \ {"awaiting_manual_courier"}) \cup {"awaiting_manual_awb"},
                   !.manual_courier = text]
    /\ UNCHANGED LedgerRest

handle_manual_awb ==
    /\ dispatched("awaiting_manual_awb")
    /\ om' = [om EXCEPT
                !.orders = add_manual_shipment(om.orders, om.manual_phone),
                !.flags = @ \ {"awaiting_manual_awb"},
                !.manual_phone = "",
                !.manual_courier = "",
                !.asked = FALSE,
                !.last = Last("add_manual_shipment", om.manual_phone,
                              find_order_by_phone(om.orders, om.manual_phone),
                              written(om.orders, om.manual_phone),
                              {}, first_with_phone(om.orders, om.manual_phone) # 0)]
    /\ UNCHANGED LedgerRest

NextLedger ==
    \/ PressMarkAdvance
    \/ PressConvertCOD
    \/ PressManualEntry
    \/ PressCancel
    \/ handle_advance_phone
    \/ advance_button
    \/ advance_custom
    \/ handle_advance_amount
    \/ handle_convert_phone
    \/ convert_confirm
    \/ convert_cancel
    \/ handle_convert_cod_amount
    \/ handle_manual_phone
    \/ manual_cancel_yes
    \/ manual_cancel_no
    \/ handle_manual_courier
    \/ handle_manual_awb

SpecLedger == InitLedger /\ [][NextLedger]_vars


\* C32: in the conversion to full COD, once the operator has confirmed, the old
\* shipment has been cancelled and a valid COD amount has been entered, a new carrier
\* order is created: create_order is dispatched, so the order is not left with its
\* only shipment cancelled and no replacement
C32_ConvertRebooks ==
    om.last.op = "convert_cod_amount" =>
        /\ om.orders[om.last.found].shipment_id \in om.cancelled_ok
        /\ "create_order" \in om.last.calls

\* C33: mark_advance_paid and add_manual_shipment change the order that
\* find_order_by_phone returns for the phone, the most recent one with it, also when
\* several orders share the phone, and change no other order
C33_SameOrder ==
    om.last.op \in {"mark_advance_paid", "add_manual_shipment"} =>
        /\ om.last.touched \subseteq {om.last.found}
        /\ om.last.found # 0 => om.last.found \in om.last.touched

\* C34: when the operator answered "No, Keep Both", the Shiprocket shipment of the
\* order is still active in the ledger after the vendor courier and AWB have been
\* recorded, and the ledger marks a Shiprocket shipment cancelled only when a
\* cancel_shipment call for it returned success
C34_KeepBothStaysActive ==
    /\ om.last.op = "add_manual_shipment" /\ om.answer = "no" =>
          \A i \in om.last.touched : om.orders[i].shiprocket = "active"
    /\ \A i \in 1..Len(om.orders) :
          om.orders[i].shiprocket = "cancelled" =>
              om.orders[i].shipment_id \in om.cancelled_ok


\* ---------------------------------------------------------------------------
\* The conversation of the basic bot (bot.py): the flags awaiting_product,
\* awaiting_shipment and editing_product of context.user_data, and products.json.
\* A flag that is absent and a flag that is False read the same with .get.
\* ---------------------------------------------------------------------------

MaxProducts == 2

ProductNames == { <<"A">>, <<"B">>, <<"C">> }
ProductList(n) == { s \in SUBSET ProductNames : Cardinality(s) <= n }
Dims == {1, 2}

\* products.json: the dimensions of the products it holds, 0 for a name it lacks
NoProducts == [n \in ProductNames |-> 0]
products_put(products, name, dims) == [products EXCEPT ![name] = dims]
products_pop(products, name) == [products EXCEPT ![name] = 0]
products_names(products) == { n \in ProductNames : products[n] # 0 }

\* the messages of the operator: the four keyboard buttons, a product line "Name l b
\* h w", a text of fewer than five words, a text of five words or more whose last
\* four are no numbers
Buttons == {"Add Product", "View Products", "Create Shipment", "Cancel"}
Button(label) == [kind |-> "button", label |-> label, name |-> <<>>, dims |-> 0]
ProductLine(name, dims) == [kind |-> "line", label |-> "", name |-> name, dims |-> dims]
ShortText == [kind |-> "short", label |-> "", name |-> <<>>, dims |-> 0]
LongText == [kind |-> "long", label |-> "", name |-> <<>>, dims |-> 0]

\* len(text.split()) >= 5 and the last four parts parse as floats
well_formed(msg) == msg.kind = "line"

\* the ends of a shipment-creation attempt
ShipmentOutcomes ==
    {"success", "no_pickup", "rejected", "no_courier", "duplicate", "exception"}

\* what the handler did with the last message or button
Done(op, msg) == [op |-> op, msg |-> msg]

\* "Add Product" and "Create Shipment" set one flag and reset the other
press_add_product_KeepShipment(c) == [c EXCEPT !.awaiting_product = TRUE]
press_add_product(c) ==
    [c EXCEPT !.awaiting_product = TRUE, !.awaiting_shipment = FALSE]

press_create_shipment(c) ==
    [c EXCEPT !.awaiting_shipment = TRUE, !.awaiting_product = FALSE]

\* handle_message: the branches in the order of the code
handle_message(c, msg, out) ==
    IF c.editing_product # <<>> THEN
        IF well_formed(msg)
        THEN [c EXCEPT !.editing_product = <<>>,
                       !.products = products_put(products_pop(@, c.editing_product),
                                                 msg.name, msg.dims),
                       !.last = Done("product_updated", msg)]
        ELSE [c EXCEPT !.last = Done("wrong_format", msg)]
    ELSE IF msg = Button("Add Product") THEN
        [press_add_product(c) EXCEPT !.last = Done("add_prompt", msg)]
    ELSE IF msg = Button("View Products") THEN
        [c EXCEPT !.last = Done("view", msg)]
    ELSE IF msg = Button("Create Shipment") THEN
        [press_create_shipment(c) EXCEPT !.last = Done("shipment_prompt", msg)]
    ELSE IF msg = Button("Cancel") THEN
        [c EXCEPT !.awaiting_product = FALSE, !.awaiting_shipment = FALSE,
                  !.editing_product = <<>>, !.last = Done("cancelled", msg)]
    ELSE IF c.awaiting_product THEN
        IF well_formed(msg)
        THEN [c EXCEPT !.products = products_put(@, msg.name, msg.dims),
                       !.awaiting_product = FALSE,
                       !.last = Done("product_saved", msg)]
        ELSE [c EXCEPT !.last = Done("invalid_format", msg)]
    ELSE IF c.awaiting_shipment THEN
        [c EXCEPT !.awaiting_shipment = FALSE,
                  !.dup_offered = @ \/ out = "duplicate",
                  !.last = Done(out, msg)]
    ELSE [c EXCEPT !.last = Done("use_keyboard", msg)]

\* handle_callback pops the three flags before it looks at the button
popped(c) ==
    [c EXCEPT !.awaiting_product = FALSE, !.editing_product = <<>>,
              !.awaiting_shipment = FALSE]

InitConv ==
    /\ InitToken
    /\ pickup_map = <<>>
    /\ pk = NoPk
    /\ fb = NoFb
    /\ sp = NoSp
    /\ co = NoCo
    /\ gt = NoGt
    /\ rp = NoRp
    /\ InitShop("basic")
    /\ om = NoOm
    /\ db = NoDb
    /\ rb = NoRb
    /\ \E names \in ProductList(MaxProducts) : \E d \in Dims :
          conv = [awaiting_product |-> FALSE, awaiting_shipment |-> FALSE,
                  editing_product |-> <<>>,
                  products |-> [n \in ProductNames |-> IF n \in names THEN d ELSE 0],
                  dup_offered |-> FALSE,
                  last |-> Done("start", ShortText)]

ConvRest == <<om, db, rb, gwVars, pickup_map, pk, fb, sp, co, gt, rp, botVars>>

\* /start clears user_data
start ==
    /\ conv' = [popped(conv) EXCEPT !.last = Done("welcome", Button("/start"))]
    /\ UNCHANGED ConvRest

SendAddProduct ==
    /\ conv' = handle_message(conv, Button("Add Product"), "success")
    /\ UNCHANGED ConvRest

SendViewProducts ==
    /\ conv' = handle_message(conv, Button("View Products"), "success")
    /\ UNCHANGED ConvRest

SendCreateShipment ==
    /\ conv' = handle_message(conv, Button("Create Shipment"), "success")
    /\ UNCHANGED ConvRest

SendCancel ==
    /\ conv' = handle_message(conv, Button("Cancel"), "success")
    /\ UNCHANGED ConvRest

SendProductLine ==
    /\ \E name \in ProductNames, dims \in Dims, out \in ShipmentOutcomes :
          /\ conv' = handle_message(conv, ProductLine(name, dims), out)
          /\ Cardinality(products_names(conv'.products)) <= MaxProducts
    /\ UNCHANGED ConvRest

SendText ==
    /\ \E msg \in {ShortText, LongText}, out \in ShipmentOutcomes :
          conv' = handle_message(conv, msg, out)
    /\ UNCHANGED ConvRest

callback_delete ==
    /\ \E name \in ProductNames :
          conv' = [popped(conv) EXCEPT
                     !.products = products_pop(@, name),
                     !.last = Done(IF conv.products[name] # 0 THEN "deleted"
                                   ELSE "not_found", Button("delete"))]
    /\ UNCHANGED ConvRest

callback_edit ==
    /\ \E name \in ProductNames :
          conv' = IF conv.products[name] # 0
                  THEN [popped(conv) EXCEPT
                          !.editing_product = name,
                          !.awaiting_product = TRUE,
                          !.last = Done("edit_prompt", Button("edit"))]
                  ELSE [popped(conv) EXCEPT !.last = Done("not_found", Button("edit"))]
    /\ UNCHANGED ConvRest

\* "Yes" under the duplicate warning: the order is created from the button
callback_dup_yes ==
    /\ conv.dup_offered
    /\ \E out \in ShipmentOutcomes \ {"no_pickup", "duplicate"} :
          conv' = [popped(conv) EXCEPT !.last = Done(out, Button("dup_yes"))]
    /\ UNCHANGED ConvRest

NextConv ==
    \/ start
    \/ SendAddProduct
    \/ SendViewProducts
    \/ SendCreateShipment
    \/ SendCancel
    \/ SendProductLine
    \/ SendText
    \/ callback_delete
    \/ callback_edit
    \/ callback_dup_yes

SpecConv == InitConv /\ [][NextConv]_vars


\* the conversation is idle: no flag is set
AtMenu(c) == ~c.awaiting_product /\ ~c.awaiting_shipment /\ c.editing_product = <<>>

\* C35: from every conversation state a single "Cancel" message returns the
\* conversation to idle, awaiting_product, awaiting_shipment and editing_product
\* cleared, also when the operator is editing a product
C35_CancelReturnsIdle == conv.last.msg = Button("Cancel") => AtMenu(conv)

\* C36: awaiting_product and awaiting_shipment are never both true, and after a
\* shipment-creation attempt, however it ended (success, rejection by the carrier, no
\* courier, duplicate gate, exception), awaiting_shipment is false
C36_FlagsExclusive ==
    /\ ~(conv.awaiting_product /\ conv.awaiting_shipment)
    /\ conv.last.op \in ShipmentOutcomes => ~conv.awaiting_shipment

\* an attempt started from a message has ended in an exception
C36_Witness ==
    /\ conv.last.op = "exception" /\ conv.last.msg = LongText
    /\ ~conv.awaiting_shipment /\ ~conv.awaiting_product

\* C37: after a product edit has been completed (edit button, then a valid product
\* line) the conversation is idle, and the free-text message that follows is not taken
\* as a product definition: it creates or overwrites no product
C37_IdleAfterEdit ==
    /\ [](conv.last.op = "product_updated" => AtMenu(conv))
    /\ [][conv.last.op = "product_updated" /\ conv'.last.msg.kind # "button"
             => conv'.products = conv.products]_vars


\* ---------------------------------------------------------------------------
\* The order database of shared_database.py: orders.json, a dictionary keyed
\* "order_<n>", and the counter of order_count.json.
\* ---------------------------------------------------------------------------

MaxCalls == 6

\* order_count.json: a file with a count, or no file, or a file json.load fails on
CounterFaults == {"missing", "unreadable"}

\* get_next_order_number starts from {"count": 0} unless the file loads
get_next_order_number(file) ==
    (IF file.kind \in CounterFaults THEN 0 ELSE file.count) + 1

\* orders.json: under key n the call of add_order that wrote the order, 0 for no key
NoOrders == [n \in 1..MaxCalls |-> 0]

InitDb ==
    /\ InitToken
    /\ pickup_map = <<>>
    /\ pk = NoPk
    /\ fb = NoFb
    /\ sp = NoSp
    /\ co = NoCo
    /\ gt = NoGt
    /\ rp = NoRp
    /\ InitShop("control")
    /\ om = NoOm
    /\ conv = NoConv
    /\ rb = NoRb
    /\ db = [count_file |-> [kind |-> "missing", count |-> 0], orders |-> NoOrders, calls |-> 0,
             returned |-> <<>>, overwrote |-> FALSE]

DbRest == <<om, conv, rb, gwVars, pickup_map, pk, fb, sp, co, gt, rp, botVars>>

add_order ==
    /\ db.calls < MaxCalls
    /\ db' = [db EXCEPT
                !.count_file = [kind |-> "json", count |-> get_next_order_number(db.count_file)],
                !.orders[get_next_order_number(db.count_file)] = db.calls + 1,
                !.calls = @ + 1,
                !.returned = Append(@, get_next_order_number(db.count_file)),
                !.overwrote =
                    db.orders[get_next_order_number(db.count_file)] # 0]
    /\ UNCHANGED DbRest

\* order_count.json is removed or damaged; orders.json is not
counter_lost ==
    /\ db.count_file.kind \notin CounterFaults
    /\ \E fault \in CounterFaults : db' = [db EXCEPT !.count_file = [kind |-> fault, count |-> 0]]
    /\ UNCHANGED DbRest

NextDb ==
    \/ add_order
    \/ counter_lost

SpecDb == InitDb /\ [][NextDb]_vars

\* C38: every add_order returns a number greater than all returned before and stores
\* the order under a key that was not present, so no order is overwritten, also when
\* the counter file is missing or unreadable while orders.json holds orders
C38_FreshNumbers ==
    /\ \A i \in 1..Len(db.returned) : \A j \in 1..Len(db.returned) :
          i < j => db.returned[i] < db.returned[j]
    /\ ~db.overwrote


\* ---------------------------------------------------------------------------
\* The report bot (report_bot.py): the list of report_subscribers.json, the
\* commands /subscribe and /unsubscribe, and the scheduled reports, which load the
\* list and then send to its members one by one, awaiting each send.
\* ---------------------------------------------------------------------------

MaxRuns == 2

Subscribers == {1, 2}

is_in(list, user_id) == \E i \in 1..Len(list) : list[i] = user_id

\* list.remove: the first occurrence goes
RECURSIVE list_remove(_, _)
list_remove(list, user_id) ==
    IF list = <<>> THEN <<>>
    ELSE IF Head(list) = user_id THEN Tail(list)
    ELSE <<Head(list)>> \o list_remove(Tail(list), user_id)

add_subscriber_Always(list, user_id) == Append(list, user_id)
add_subscriber(list, user_id) ==
    IF ~is_in(list, user_id) THEN Append(list, user_id) ELSE list

remove_subscriber(list, user_id) ==
    IF is_in(list, user_id) THEN list_remove(list, user_id) ELSE list

\* a scheduled report: the list it loaded, the users subscribed at that moment, the
\* position of the next send
NoRun == [pc |-> "idle", list |-> <<>>, members |-> {}, idx |-> 0]

\* the last command or send: the user, what the function returned, whether the id
\* was in the list before, whether the user was subscribed at that moment
Did(op, user_id, ret, was_in, live) ==
    [op |-> op, user |-> user_id, ret |-> ret, was_in |-> was_in, live |-> live]

InitReport ==
    /\ InitToken
    /\ pickup_map = <<>>
    /\ pk = NoPk
    /\ fb = NoFb
    /\ sp = NoSp
    /\ co = NoCo
    /\ gt = NoGt
    /\ rp = NoRp
    /\ InitShop("control")
    /\ om = NoOm
    /\ conv = NoConv
    /\ db = NoDb
    /\ rb = [subscribers |-> <<>>, members |-> {}, run |-> NoRun, runs |-> 0,
             last |-> Did("none", 0, FALSE, FALSE, FALSE)]

ReportRest == <<om, conv, db, gwVars, pickup_map, pk, fb, sp, co, gt, rp, botVars>>

subscribe ==
    /\ \E user_id \in Subscribers :
          rb' = [rb EXCEPT
                   !.subscribers = add_subscriber(@, user_id),
                   !.members = @ \cup {user_id},
                   !.last = Did("subscribe", user_id,
                                ~is_in(rb.subscribers, user_id),
                                is_in(rb.subscribers, user_id), TRUE)]
    /\ UNCHANGED ReportRest

unsubscribe ==
    /\ \E user_id \in Subscribers :
          rb' = [rb EXCEPT
                   !.subscribers = remove_subscriber(@, user_id),
                   !.members = @ \ {user_id},
                   !.last = Did("unsubscribe", user_id,
                                is_in(rb.subscribers, user_id),
                                is_in(rb.subscribers, user_id), FALSE)]
    /\ UNCHANGED ReportRest

\* send_morning_alert and send_night_report start: load_subscribers()
report_load ==
    /\ rb.run.pc = "idle"
    /\ rb.runs < MaxRuns
    /\ rb' = [rb EXCEPT
                !.run = [pc |-> "sending", list |-> rb.subscribers,
                         members |-> rb.members, idx |-> 1],
                !.runs = @ + 1,
                !.last = Did("load", 0, FALSE, FALSE, FALSE)]
    /\ UNCHANGED ReportRest

\* one turn of the loop `for user_id in subscribers: await bot.send_message(...)`
report_send ==
    /\ rb.run.pc = "sending"
    /\ rb.run.idx <= Len(rb.run.list)
    /\ \E sent \in BOOLEAN :
          rb' = [rb EXCEPT
                   !.run.idx = @ + 1,
                   !.last = IF sent
                            THEN Did("send", rb.run.list[rb.run.idx], TRUE,
                                     is_in(rb.subscribers, rb.run.list[rb.run.idx]),
                                     rb.run.list[rb.run.idx] \in rb.members)
                            ELSE Did("send_failed", rb.run.list[rb.run.idx], FALSE,
                                     is_in(rb.subscribers, rb.run.list[rb.run.idx]),
                                     rb.run.list[rb.run.idx] \in rb.members)]
    /\ UNCHANGED ReportRest

report_done ==
    /\ rb.run.pc = "sending"
    /\ rb.run.idx > Len(rb.run.list)
    /\ rb' = [rb EXCEPT !.run.pc = "idle"]
    /\ UNCHANGED ReportRest

NextReport ==
    \/ subscribe
    \/ unsubscribe
    \/ report_load
    \/ report_send
    \/ report_done

SpecReport == InitReport /\ [][NextReport]_vars

\* the list holds no user id twice and holds the users whose last command subscribed
ListIsMembers ==
    /\ \A i \in 1..Len(rb.subscribers) : \A j \in 1..Len(rb.subscribers) :
          i # j => rb.subscribers[i] # rb.subscribers[j]
    /\ { rb.subscribers[i] : i \in 1..Len(rb.subscribers) } = rb.members

\* add_subscriber returns true exactly when the id was absent, remove_subscriber
\* exactly when it was present
ReturnsTellChange ==
    /\ rb.last.op = "subscribe" => (rb.last.ret <=> ~rb.last.was_in)
    /\ rb.last.op = "unsubscribe" => (rb.last.ret <=> rb.last.was_in)

\* C39 as stated: no duplicate in the list, the return values tell whether the list
\* changed, and a report is sent to no user who has unsubscribed
C39_Original ==
    /\ ListIsMembers
    /\ ReturnsTellChange
    /\ rb.last.op = "send" => rb.last.live

\* C39: no duplicate in the list, the return values tell whether the list changed,
\* and a scheduled report goes to the users who were subscribed when the run loaded
\* the list: a user who unsubscribed before that receives nothing from the run
C39_SentToLoadedList ==
    /\ ListIsMembers
    /\ ReturnsTellChange
    /\ rb.last.op = "send" => rb.last.user \in rb.run.members

\* a user unsubscribed while a run was sending and received its report
C39_Witness ==
    /\ rb.last.op = "send" /\ ~rb.last.live
    /\ rb.last.user \in rb.run.members
    /\ rb.last.user \notin rb.members

====
